---- MODULE Spec2Model ----
(***************************************************************************)
(* The port mapping supervisor of portmapper (Service in                   *)
(* portmapper/src/lib.rs): its message handlers, the completion of its     *)
(* mapping and probing tasks, the events of the current mapping, and the   *)
(* freshness record of the probes.                                         *)
(*                                                                         *)
(* Option<T> is a sequence of length at most one: <<>> is None, <<x>> is   *)
(* Some(x).  Instants are integers, in seconds, counted from the present:  *)
(* the service only compares an instant plus a duration with               *)
(* Instant::now(), so that now is 0 and the clock advances by moving the   *)
(* instants recorded back.                                                 *)
(***************************************************************************)
EXTENDS Integers, Sequences, FiniteSets, TLC

\* ---------------------------------------------------------------- constants
AVAILABILITY_TRUST_DURATION == 600
UNAVAILABILITY_TRUST_DURATION == 5

\* ------------------------------------------------------------------- bounds
\* Spec: the mapping tasks spawned and the Probe requests handled.
MaxMapTasks == 2
MaxProbeReqs == 1
\* SpecProbe: the same, with more Probe requests and fewer mapping tasks.
MaxProbeReqsP == 2
MaxMapTasksP == 1

\* SpecFresh: the seconds the clock runs for after a probe.
MaxAge == 700

\* SpecLoop: the messages that may wait in the channel of Service.rx.
MaxQueued == 2

\* Local ports are only compared with each other: two of them, A and B.
Ports == {"A", "B"}
ExtAddrs == {"e1"}

\* Instant::now()
now == 0

None == <<>>
Some(x) == <<x>>
IsSome(o) == o /= <<>>
Unwrap(o) == o[1]

VARIABLES
    config,           \* Service.config
    local_port,       \* Service.local_port : Option<port>
    current_mapping,  \* Service.current_mapping : the mapping, its timer, the watched address
    full_probe,       \* Service.full_probe
    mapping_task,     \* Service.mapping_task : Option<handle>
    probing_task,     \* Service.probing_task : Option<(handle, receivers)>
    fate,             \* the state of every mapping task ever spawned
    live_probes,      \* the number of probe tasks spawned and neither joined nor aborted
    nreq,             \* the number of Probe requests handled so far
    answered,         \* how many results each Probe request's channel was sent
    released,         \* how many times release() was called on each mapping
    running,          \* the loop of Service::run has not exited
    chan,             \* the channel of Service.rx: whether a sender is alive, the
                      \* number of messages queued
    client,           \* a protocol client at work: what it was asked, the
                      \* datagrams it sent, the result it returned
    nw,               \* a function of netwatch at work: its arguments, its
                      \* locals, what it returned
    last              \* the arm of the select that ran last: its message, the
                      \* local port it found, whether it found a gateway, the
                      \* mapping task it aborted (0: none) and the results it
                      \* sent on reply channels, in sending order

vars == <<config, local_port, current_mapping, full_probe, mapping_task,
          probing_task, fate, live_probes, nreq, answered, released,
          running, chan, client, nw, last>>

\* ------------------------------------------------------------ the channel
\* mpsc::channel in Client::new: one sender per Client, no message queued.
ChannelNew == [senders |-> TRUE, queued |-> 0]

\* rx.recv() yields a message: one is queued, or a sender is sending one.
Available(c) == c.queued > 0 \/ c.senders

\* The channel after rx.recv() yielded a message.
Take(c) == [c EXCEPT !.queued = IF @ > 0 THEN @ - 1 ELSE 0]

\* No protocol client is at work.
Idle == [proto |-> "none"]

\* No function of netwatch is at work.
Resting == [fn |-> "none"]

\* ------------------------------------------------------------------- Config
Configs == [enable_upnp : BOOLEAN, enable_pcp : BOOLEAN, enable_nat_pmp : BOOLEAN]

\* ------------------------------------------------------------------- Probe
ProbeOutput(u, p, n) == [upnp |-> u, pcp |-> p, nat_pmp |-> n]

all_available(out) == out.upnp /\ out.pcp /\ out.nat_pmp

ProbeEmpty(t) ==
    [last_probe |-> t, last_upnp_gateway_addr |-> None,
     last_pcp |-> None, last_nat_pmp |-> None]

\* The protocol trusted up to and including the end of the trust duration.
Fresh_Inclusive(last_seen, t) ==
    IF IsSome(last_seen)
    THEN Unwrap(last_seen) + AVAILABILITY_TRUST_DURATION >= t
    ELSE FALSE

Fresh(last_seen, t) ==
    IF IsSome(last_seen)
    THEN Unwrap(last_seen) + AVAILABILITY_TRUST_DURATION > t
    ELSE FALSE

output(probe, t) ==
    ProbeOutput(Fresh(probe.last_upnp_gateway_addr, t),
                Fresh(probe.last_pcp, t),
                Fresh(probe.last_nat_pmp, t))

\* Probe::update replacing the record by the new probe.
update_Replace(self, probe) == probe

update(self, probe) ==
    [last_probe |-> probe.last_probe,
     last_upnp_gateway_addr |->
         IF IsSome(probe.last_upnp_gateway_addr)
         THEN probe.last_upnp_gateway_addr ELSE self.last_upnp_gateway_addr,
     last_pcp |->
         IF IsSome(probe.last_pcp) THEN probe.last_pcp ELSE self.last_pcp,
     last_nat_pmp |->
         IF IsSome(probe.last_nat_pmp) THEN probe.last_nat_pmp ELSE self.last_nat_pmp]

\* from_output probing every protocol that is not available, enabled or not.
Probed_NotAvailable(cfg, out) ==
    [upnp |-> ~out.upnp, pcp |-> ~out.pcp, nat_pmp |-> ~out.nat_pmp]

\* The protocols Probe::from_output probes: those enabled and not available.
Probed(cfg, out) ==
    [upnp |-> cfg.enable_upnp /\ ~out.upnp,
     pcp |-> cfg.enable_pcp /\ ~out.pcp,
     nat_pmp |-> cfg.enable_nat_pmp /\ ~out.nat_pmp]

\* The probe a task returns: it was created at `start`, and the protocols of
\* `found` (all of them probed) answered at `t`.
from_output(probed, found, start, t) ==
    [last_probe |-> start,
     last_upnp_gateway_addr |-> IF probed.upnp /\ found.upnp THEN Some(t) ELSE None,
     last_pcp |-> IF probed.pcp /\ found.pcp THEN Some(t) ELSE None,
     last_nat_pmp |-> IF probed.nat_pmp /\ found.nat_pmp THEN Some(t) ELSE None]

\* ---------------------------------------------------------- ip_and_gateway
GwResults == {"ok", "NoGateway", "Ipv6Gateway"}

\* What a handler is given for HomeRouter::new(): "unused" when it does not
\* look for the gateway.
GwInputs == GwResults \cup {"unused"}

\* ip_and_gateway(): Ok when HomeRouter::new() finds an IPv4 gateway, else
\* the error.
ip_and_gateway(home_router) == home_router

\* ---------------------------------------------------------- CurrentMapping
CurrentMappingNew == [mapping |-> None, timer |-> "off", address |-> None]

external(cm) ==
    IF IsSome(cm.mapping) THEN Some(Unwrap(cm.mapping).external) ELSE None

\* CurrentMapping::update: replaces the mapping, arms the timer and publishes
\* the external address; the old mapping is returned (CmOld).
CmUpdate(cm, new) ==
    [mapping |-> new,
     timer |-> IF IsSome(new) THEN "renew" ELSE "off",
     address |-> IF IsSome(new) THEN Some(Unwrap(new).external) ELSE None]

CmOld(cm) == cm.mapping

\* CurrentMapping as a stream: Renew first, Expired after it.
CmNext(cm) == [cm EXCEPT !.timer = IF @ = "renew" THEN "expire" ELSE "off"]

\* ------------------------------------------------------------ mapping tasks
FreeIds(f) == {i \in DOMAIN f : f[i] = "unspawned"}
NextId(f) == CHOOSE i \in FreeIds(f) : \A j \in FreeIds(f) : i <= j

\* A handle that detaches its task when dropped.
DropHandle_Detach(f, slot) == f

\* Dropping the AbortOnDropHandle in `slot` aborts its task.
DropHandle(f, slot) ==
    IF IsSome(slot) THEN [f EXCEPT ![Unwrap(slot).id] = "aborted"] ELSE f

\* The task that dropping `slot` aborts, 0 when the slot is empty.
Cancelled(slot) == IF IsSome(slot) THEN Unwrap(slot).id ELSE 0

\* The order of get_mapping without the recency of the last probe.
SelectProtocol_NoRecency(out, cfg, recently_probed) ==
    IF out.pcp THEN "pcp"
    ELSE IF out.nat_pmp THEN "nat_pmp"
    ELSE IF out.upnp \/ cfg.enable_upnp THEN "upnp"
    ELSE IF cfg.enable_pcp THEN "pcp"
    ELSE IF cfg.enable_nat_pmp THEN "nat_pmp"
    ELSE "none"

SelectProtocol(out, cfg, recently_probed) ==
    IF out.pcp THEN "pcp"
    ELSE IF out.nat_pmp THEN "nat_pmp"
    ELSE IF out.upnp \/ cfg.enable_upnp THEN "upnp"
    ELSE IF ~recently_probed /\ cfg.enable_pcp THEN "pcp"
    ELSE IF ~recently_probed /\ cfg.enable_nat_pmp THEN "nat_pmp"
    ELSE "none"

RecentlyProbed(probe, t) == probe.last_probe + UNAVAILABILITY_TRUST_DURATION > t

\* get_mapping taking the task out of the slot before it looks for the
\* gateway and the protocol.
get_mapping_TakeFirst(lp, external_addr, home_router, slot, f) ==
    LET proto == SelectProtocol(output(full_probe, now), config,
                                RecentlyProbed(full_probe, now))
        found == IF ip_and_gateway(home_router) = "ok" THEN "ok" ELSE "error"
        taken == [task |-> None, fate |-> DropHandle(f, slot), blocked |-> FALSE,
                  gw |-> found, cancelled |-> Cancelled(slot)]
    IN  IF ~IsSome(lp) THEN [taken EXCEPT !.gw = "unused"]
        ELSE IF ip_and_gateway(home_router) /= "ok" THEN taken
        ELSE IF proto = "none" THEN taken
        ELSE IF FreeIds(f) = {} THEN [taken EXCEPT !.blocked = TRUE]
        ELSE LET id == NextId(f)
             IN  [task |-> Some([id |-> id, kind |-> proto,
                                 local_port |-> Unwrap(lp),
                                 external_addr |-> external_addr]),
                  fate |-> [DropHandle(f, slot) EXCEPT ![id] = "running"],
                  blocked |-> FALSE, gw |-> found, cancelled |-> Cancelled(slot)]

\* get_mapping spawning the task whatever ip_and_gateway returns.
get_mapping_NoGatewayCheck(lp, external_addr, home_router, slot, f) ==
    LET proto == SelectProtocol(output(full_probe, now), config,
                                RecentlyProbed(full_probe, now))
        found == IF ip_and_gateway(home_router) = "ok" THEN "ok" ELSE "error"
        keep == [task |-> slot, fate |-> f, blocked |-> FALSE, gw |-> found,
                 cancelled |-> 0]
    IN  IF ~IsSome(lp) THEN [keep EXCEPT !.gw = "unused"]
        ELSE IF proto = "none" THEN keep
        ELSE IF FreeIds(f) = {} THEN [keep EXCEPT !.blocked = TRUE]
        ELSE LET id == NextId(f)
             IN  [task |-> Some([id |-> id, kind |-> proto,
                                 local_port |-> Unwrap(lp),
                                 external_addr |-> external_addr]),
                  fate |-> [DropHandle(f, slot) EXCEPT ![id] = "running"],
                  blocked |-> FALSE, gw |-> found, cancelled |-> Cancelled(slot)]

\* Service::get_mapping with self.local_port = lp and self.mapping_task = slot:
\* the mapping task slot and the tasks' states it leaves.  `gw` says whether
\* a gateway was found ("unused" when it was not looked for); `blocked` says
\* that there is no room for the task to spawn.
get_mapping(lp, external_addr, home_router, slot, f) ==
    LET proto == SelectProtocol(output(full_probe, now), config,
                                RecentlyProbed(full_probe, now))
        found == IF ip_and_gateway(home_router) = "ok" THEN "ok" ELSE "error"
        keep == [task |-> slot, fate |-> f, blocked |-> FALSE, gw |-> found,
                 cancelled |-> 0]
    IN  IF ~IsSome(lp) THEN [keep EXCEPT !.gw = "unused"]
        ELSE IF ip_and_gateway(home_router) /= "ok" THEN keep
        ELSE IF proto = "none" THEN keep
        ELSE IF FreeIds(f) = {} THEN [keep EXCEPT !.blocked = TRUE]
        ELSE LET id == NextId(f)
             IN  [task |-> Some([id |-> id, kind |-> proto,
                                 local_port |-> Unwrap(lp),
                                 external_addr |-> external_addr]),
                  fate |-> [DropHandle(f, slot) EXCEPT ![id] = "running"],
                  blocked |-> FALSE, gw |-> found, cancelled |-> Cancelled(slot)]

\* ---------------------------------------------------------------- replies
Ok(out) == [err |-> "ok", out |-> out]
Err(e) == [err |-> e, out |-> ProbeOutput(FALSE, FALSE, FALSE)]

\* The results `sent`, counted on their channels.
Count(ans, sent) ==
    [r \in DOMAIN ans |-> ans[r] + Cardinality({i \in 1..Len(sent) : sent[i][1] = r})]

Arm(ev, port, gw, cancelled, sent) ==
    [ev |-> ev, port |-> port, gw |-> gw, cancelled |-> cancelled, sent |-> sent]

\* ------------------------------------------------------------------- Init
\* The service as Service::new leaves it, with room for max_tasks mapping
\* tasks and max_reqs Probe requests.
InitService(max_tasks, max_reqs) ==
    /\ config \in Configs
    /\ local_port = None
    /\ current_mapping = CurrentMappingNew
       \* Service::new: last_probe is set in the past when the clock allows it
    /\ full_probe \in {ProbeEmpty(now - AVAILABILITY_TRUST_DURATION), ProbeEmpty(now)}
    /\ mapping_task = None
    /\ probing_task = None
    /\ fate = [i \in 1..max_tasks |-> "unspawned"]
    /\ live_probes = 0
    /\ nreq = 0
    /\ answered = [r \in 1..max_reqs |-> 0]
    /\ released = [i \in 1..max_tasks |-> 0]
    /\ running = TRUE
    /\ chan = ChannelNew
    /\ client = Idle
    /\ nw = Resting
    /\ last = Arm("Init", None, "unused", 0, <<>>)

Init == InitService(MaxMapTasks, MaxProbeReqs)

\* --------------------------------------------------------------- handlers

\* invalidate_mapping releasing the mapping and leaving it in the slot.
invalidate_mapping_KeepCurrent ==
    /\ UNCHANGED current_mapping
    /\ IF IsSome(CmOld(current_mapping))
       THEN released' = [released EXCEPT ![Unwrap(CmOld(current_mapping)).id] = @ + 1]
       ELSE UNCHANGED released

\* invalidate_mapping dropping the mapping it takes out.
invalidate_mapping_NoRelease ==
    /\ current_mapping' = CmUpdate(current_mapping, None)
    /\ UNCHANGED released

\* Service::invalidate_mapping: the current mapping is taken out and released.
invalidate_mapping ==
    /\ current_mapping' = CmUpdate(current_mapping, None)
    /\ IF IsSome(CmOld(current_mapping))
       THEN released' = [released EXCEPT ![Unwrap(CmOld(current_mapping)).id] = @ + 1]
       ELSE UNCHANGED released

\* update_local_port leaving the mapping task in its slot when the port
\* changes.
update_local_port_KeepTask(ev, port, home_router) ==
    IF port /= local_port
    THEN LET external_addr == external(current_mapping)
             r == get_mapping(port, external_addr, home_router, mapping_task, fate)
         IN  /\ ~r.blocked
             /\ (r.gw = "unused") = (home_router = "unused")
             /\ last' = Arm(ev, local_port, r.gw, r.cancelled, <<>>)
             /\ local_port' = port
             /\ IF IsSome(external_addr)
                THEN invalidate_mapping
                ELSE UNCHANGED <<current_mapping, released>>
             /\ mapping_task' = r.task
             /\ fate' = r.fate
    ELSE IF ~IsSome(external(current_mapping))
    THEN LET r == get_mapping(local_port, None, home_router, mapping_task, fate)
         IN  /\ ~r.blocked
             /\ (r.gw = "unused") = (home_router = "unused")
             /\ last' = Arm(ev, local_port, r.gw, r.cancelled, <<>>)
             /\ mapping_task' = r.task
             /\ fate' = r.fate
             /\ UNCHANGED <<local_port, current_mapping, released>>
    ELSE /\ home_router = "unused"
         /\ last' = Arm(ev, local_port, "unused", 0, <<>>)
         /\ UNCHANGED <<local_port, current_mapping, released, mapping_task, fate>>

\* update_local_port making a mapping attempt whenever the port is unchanged,
\* a mapping held or not.
update_local_port_AlwaysRetry(ev, port, home_router) ==
    IF port /= local_port
    THEN LET external_addr == external(current_mapping)
             r == get_mapping(port, external_addr, home_router, None,
                              DropHandle(fate, mapping_task))
         IN  /\ ~r.blocked
             /\ (r.gw = "unused") = (home_router = "unused")
             /\ last' = Arm(ev, local_port, r.gw, Cancelled(mapping_task), <<>>)
             /\ local_port' = port
             /\ IF IsSome(external_addr)
                THEN invalidate_mapping
                ELSE UNCHANGED <<current_mapping, released>>
             /\ mapping_task' = r.task
             /\ fate' = r.fate
    ELSE LET r == get_mapping(local_port, None, home_router, mapping_task, fate)
         IN  /\ ~r.blocked
             /\ (r.gw = "unused") = (home_router = "unused")
             /\ last' = Arm(ev, local_port, r.gw, r.cancelled, <<>>)
             /\ mapping_task' = r.task
             /\ fate' = r.fate
             /\ UNCHANGED <<local_port, current_mapping, released>>

\* Service::update_local_port(port), reached from UpdateLocalPort and from
\* ProcureMapping (ev).
update_local_port(ev, port, home_router) ==
    IF port /= local_port
    THEN LET external_addr == external(current_mapping)
             r == get_mapping(port, external_addr, home_router, None,
                              DropHandle(fate, mapping_task))
         IN  /\ ~r.blocked
             /\ (r.gw = "unused") = (home_router = "unused")
             /\ last' = Arm(ev, local_port, r.gw, Cancelled(mapping_task), <<>>)
             /\ local_port' = port
             /\ IF IsSome(external_addr)
                THEN invalidate_mapping
                ELSE UNCHANGED <<current_mapping, released>>
             /\ mapping_task' = r.task
             /\ fate' = r.fate
    ELSE IF ~IsSome(external(current_mapping))
    THEN LET r == get_mapping(local_port, None, home_router, mapping_task, fate)
         IN  /\ ~r.blocked
             /\ (r.gw = "unused") = (home_router = "unused")
             /\ last' = Arm(ev, local_port, r.gw, r.cancelled, <<>>)
             /\ mapping_task' = r.task
             /\ fate' = r.fate
             /\ UNCHANGED <<local_port, current_mapping, released>>
    ELSE /\ home_router = "unused"
         /\ last' = Arm(ev, local_port, "unused", 0, <<>>)
         /\ UNCHANGED <<local_port, current_mapping, released, mapping_task, fate>>

\* Message::UpdateLocalPort { local_port } in Service::handle_msg
HandleUpdateLocalPort ==
    \E port \in {None} \cup {Some(p) : p \in Ports}, gw \in GwInputs :
        /\ running
        /\ Available(chan)
        /\ chan' = Take(chan)
        /\ update_local_port("UpdateLocalPort", port, gw)
        /\ UNCHANGED <<nw, client, config, full_probe, probing_task, live_probes, nreq,
                       answered, running>>

\* ProcureMapping handled by get_mapping(None) directly.
HandleProcureMapping_GetMapping ==
    \E gw \in GwInputs :
        /\ running
        /\ Available(chan)
        /\ chan' = Take(chan)
        /\ LET r == get_mapping(local_port, None, gw, mapping_task, fate)
           IN  /\ ~r.blocked
               /\ (r.gw = "unused") = (gw = "unused")
               /\ last' = Arm("ProcureMapping", local_port, r.gw, r.cancelled, <<>>)
               /\ mapping_task' = r.task
               /\ fate' = r.fate
        /\ UNCHANGED <<local_port, current_mapping, released>>
        /\ UNCHANGED <<nw, client, config, full_probe, probing_task, live_probes, nreq,
                       answered, running>>

\* Message::ProcureMapping in Service::handle_msg
HandleProcureMapping ==
    \E gw \in GwInputs :
        /\ running
        /\ Available(chan)
        /\ chan' = Take(chan)
        /\ update_local_port("ProcureMapping", local_port, gw)
        /\ UNCHANGED <<nw, client, config, full_probe, probing_task, live_probes, nreq,
                       answered, running>>

\* probe_request spawning the probe task whatever ip_and_gateway returns.
probe_request_NoGatewayCheck(result_tx, home_router) ==
    IF IsSome(probing_task)
    THEN [task |-> Some([Unwrap(probing_task) EXCEPT
                            !.receivers = Append(@, result_tx)]),
          sent |-> <<>>, spawned |-> 0, looked |-> FALSE]
    ELSE LET probe_output == output(full_probe, now)
         IN  IF all_available(probe_output)
             THEN [task |-> probing_task,
                   sent |-> << <<result_tx, Ok(probe_output)>> >>,
                   spawned |-> 0, looked |-> FALSE]
             ELSE [task |-> Some([probed |-> Probed(config, probe_output),
                                  start |-> now,
                                  receivers |-> <<result_tx>>]),
                   sent |-> <<>>, spawned |-> 1, looked |-> TRUE]

\* probe_request giving the probe task in flight to the new requester alone.
probe_request_Replace(result_tx, home_router) ==
    IF IsSome(probing_task)
    THEN [task |-> Some([Unwrap(probing_task) EXCEPT !.receivers = <<result_tx>>]),
          sent |-> <<>>, spawned |-> 0, looked |-> FALSE]
    ELSE LET probe_output == output(full_probe, now)
         IN  IF all_available(probe_output)
             THEN [task |-> probing_task,
                   sent |-> << <<result_tx, Ok(probe_output)>> >>,
                   spawned |-> 0, looked |-> FALSE]
             ELSE IF ip_and_gateway(home_router) /= "ok"
             THEN [task |-> probing_task,
                   sent |-> << <<result_tx, Err(ip_and_gateway(home_router))>> >>,
                   spawned |-> 0, looked |-> TRUE]
             ELSE [task |-> Some([probed |-> Probed(config, probe_output),
                                  start |-> now,
                                  receivers |-> <<result_tx>>]),
                   sent |-> <<>>, spawned |-> 1, looked |-> TRUE]

\* Service::probe_request(result_tx): the probing task slot it leaves, the
\* results it sends, whether it spawned a task and whether it looked for the
\* gateway.
probe_request(result_tx, home_router) ==
    IF IsSome(probing_task)
    THEN [task |-> Some([Unwrap(probing_task) EXCEPT
                            !.receivers = Append(@, result_tx)]),
          sent |-> <<>>, spawned |-> 0, looked |-> FALSE]
    ELSE LET probe_output == output(full_probe, now)
         IN  IF all_available(probe_output)
             THEN [task |-> probing_task,
                   sent |-> << <<result_tx, Ok(probe_output)>> >>,
                   spawned |-> 0, looked |-> FALSE]
             ELSE IF ip_and_gateway(home_router) /= "ok"
             THEN [task |-> probing_task,
                   sent |-> << <<result_tx, Err(ip_and_gateway(home_router))>> >>,
                   spawned |-> 0, looked |-> TRUE]
             ELSE [task |-> Some([probed |-> Probed(config, probe_output),
                                  start |-> now,
                                  receivers |-> <<result_tx>>]),
                   sent |-> <<>>, spawned |-> 1, looked |-> TRUE]

\* Message::Probe { result_tx } in Service::handle_msg; the channel of a
\* request is named by the request's number.
HandleProbe ==
    \E gw \in GwInputs :
        /\ running
        /\ Available(chan)
        /\ chan' = Take(chan)
        /\ nreq < Len(answered)
        /\ nreq' = nreq + 1
        /\ LET r == probe_request(nreq + 1, gw)
           IN  /\ r.looked = (gw /= "unused")
               /\ probing_task' = r.task
               /\ live_probes' = live_probes + r.spawned
               /\ answered' = Count(answered, r.sent)
               /\ last' = Arm("Probe", local_port, gw, 0, r.sent)
        /\ UNCHANGED <<nw, client, config, local_port, current_mapping, full_probe,
                       mapping_task, fate, released, running>>

\* ------------------------------------------------------- task completions

MappingResults == {[res |-> "ok", external |-> e] : e \in ExtAddrs}
                      \cup {[res |-> r, external |-> "e1"] : r \in {"error", "join"}}

\* on_mapping_result giving up the current mapping when the task failed.
on_mapping_result_ClearOnError(task, result) ==
    IF result.res = "ok"
    THEN current_mapping' =
             CmUpdate(current_mapping,
                      Some([id |-> task.id, kind |-> task.kind,
                            local_port |-> task.local_port,
                            external |-> result.external]))
    ELSE current_mapping' = CmUpdate(current_mapping, None)

\* Service::on_mapping_result
on_mapping_result(task, result) ==
    IF result.res = "ok"
    THEN current_mapping' =
             CmUpdate(current_mapping,
                      Some([id |-> task.id, kind |-> task.kind,
                            local_port |-> task.local_port,
                            external |-> result.external]))
    ELSE UNCHANGED current_mapping

\* The select arm of the mapping task in Service::run: the task in the slot
\* has ended, with a mapping, an error or a join error.
MappingReady ==
    \E result \in MappingResults :
        /\ running
        /\ IsSome(mapping_task)
        /\ mapping_task' = None
        /\ fate' = [fate EXCEPT ![Unwrap(mapping_task).id] = "joined"]
        /\ on_mapping_result(Unwrap(mapping_task), result)
        /\ last' = Arm(IF result.res = "ok" THEN "MappingReady" ELSE "MappingFailed",
                       local_port, "unused", 0, <<>>)
        /\ UNCHANGED <<nw, chan, client, config, local_port, full_probe, probing_task, live_probes,
                       nreq, answered, released, running>>

\* The receivers served last in, first out.
FanOut_Reversed(receivers, result) ==
    [i \in 1..Len(receivers) |-> <<receivers[Len(receivers) + 1 - i], result>>]

\* The results on_probe_result sends: one per receiver, in the receivers' order.
FanOut(receivers, result) ==
    [i \in 1..Len(receivers) |-> <<receivers[i], result>>]

\* Service::on_probe_result: the freshness record it leaves and the results
\* it sends.
on_probe_result(result, receivers) ==
    IF result.ok
    THEN LET merged == update(full_probe, result.probe)
         IN  [probe |-> merged,
              sent |-> FanOut(receivers, Ok(output(merged, now)))]
    ELSE [probe |-> full_probe, sent |-> FanOut(receivers, Err("Join"))]

\* The select arm of the probing task in Service::run: the task has ended,
\* with the probe it built or with a join error.
ProbeReady ==
    \E found \in [upnp : BOOLEAN, pcp : BOOLEAN, nat_pmp : BOOLEAN], ok \in BOOLEAN :
        /\ running
        /\ IsSome(probing_task)
        /\ LET task == Unwrap(probing_task)
               r == on_probe_result(
                        [ok |-> ok,
                         probe |-> from_output(task.probed, found, task.start, now)],
                        task.receivers)
           IN  /\ found.upnp => task.probed.upnp
               /\ found.pcp => task.probed.pcp
               /\ found.nat_pmp => task.probed.nat_pmp
               /\ ~ok => found = [upnp |-> FALSE, pcp |-> FALSE, nat_pmp |-> FALSE]
               /\ full_probe' = r.probe
               /\ answered' = Count(answered, r.sent)
               /\ last' = Arm(IF ok THEN "ProbeReady" ELSE "ProbeJoinError",
                              local_port, "unused", 0, r.sent)
        /\ probing_task' = None
        /\ live_probes' = live_probes - 1
        /\ UNCHANGED <<nw, chan, client, config, local_port, current_mapping, mapping_task, fate,
                       nreq, released, running>>

\* ------------------------------------------------- current mapping events

\* The arm of current_mapping.next() asking for a mapping without a
\* preferred external address.
MappingEvent_NoPreference ==
    \E gw \in GwInputs :
        /\ running
        /\ current_mapping.timer /= "off"
        /\ LET r == get_mapping(local_port, None, gw, mapping_task, fate)
           IN  /\ ~r.blocked
               /\ (r.gw = "unused") = (gw = "unused")
               /\ mapping_task' = r.task
               /\ fate' = r.fate
               /\ last' = Arm(IF current_mapping.timer = "renew"
                              THEN "Renew" ELSE "Expired",
                              local_port, r.gw, r.cancelled, <<>>)
        /\ current_mapping' = CmNext(current_mapping)
        /\ UNCHANGED <<nw, chan, client, config, local_port, full_probe, probing_task, live_probes,
                       nreq, answered, released, running>>

\* The select arm of current_mapping.next() in Service::run.
MappingEvent ==
    \E gw \in GwInputs :
        /\ running
        /\ current_mapping.timer /= "off"
        /\ LET r == get_mapping(local_port, external(current_mapping), gw,
                                mapping_task, fate)
           IN  /\ ~r.blocked
               /\ (r.gw = "unused") = (gw = "unused")
               /\ mapping_task' = r.task
               /\ fate' = r.fate
               /\ last' = Arm(IF current_mapping.timer = "renew"
                              THEN "Renew" ELSE "Expired",
                              local_port, r.gw, r.cancelled, <<>>)
        /\ current_mapping' = CmNext(current_mapping)
        /\ UNCHANGED <<nw, chan, client, config, local_port, full_probe, probing_task, live_probes,
                       nreq, answered, released, running>>

\* ------------------------------------------------------------ environment

\* An instant after AVAILABILITY_TRUST_DURATION has passed.  What is that old
\* is as old as anything older: nothing seen then is trusted any more.
Elapse(t) ==
    IF t - AVAILABILITY_TRUST_DURATION < now - AVAILABILITY_TRUST_DURATION
    THEN now - AVAILABILITY_TRUST_DURATION
    ELSE t - AVAILABILITY_TRUST_DURATION

ElapseSeen(last_seen) ==
    IF IsSome(last_seen) THEN Some(Elapse(Unwrap(last_seen))) ELSE None

\* The clock advances by AVAILABILITY_TRUST_DURATION between two arms of
\* the select.
Tick ==
    /\ running
    /\ full_probe' =
           [last_probe |-> Elapse(full_probe.last_probe),
            last_upnp_gateway_addr |-> ElapseSeen(full_probe.last_upnp_gateway_addr),
            last_pcp |-> ElapseSeen(full_probe.last_pcp),
            last_nat_pmp |-> ElapseSeen(full_probe.last_nat_pmp)]
    /\ probing_task' =
           IF IsSome(probing_task)
           THEN Some([Unwrap(probing_task) EXCEPT !.start = Elapse(@)])
           ELSE None
    /\ last' = Arm("Tick", local_port, "unused", 0, <<>>)
    /\ UNCHANGED <<nw, chan, client, config, local_port, current_mapping, mapping_task, fate,
                   live_probes, nreq, answered, released, running>>

\* The loop breaking as soon as no message waits, senders alive or not.
Shutdown_WhenIdle ==
    /\ running
    /\ chan.queued = 0
    /\ chan' = chan
    /\ running' = FALSE
    /\ fate' = DropHandle(fate, mapping_task)
    /\ mapping_task' = None
    /\ probing_task' = None
    /\ live_probes' = 0
    /\ current_mapping' = [current_mapping EXCEPT !.timer = "off"]
    /\ last' = Arm("Shutdown", local_port, "unused", Cancelled(mapping_task), <<>>)
    /\ UNCHANGED <<nw, client, config, local_port, full_probe, nreq, answered, released>>

\* The loop's exit issuing a release for the mapping it holds.
Shutdown_Release ==
    /\ running
    /\ chan.queued = 0
    /\ chan' = [chan EXCEPT !.senders = FALSE]
    /\ running' = FALSE
    /\ fate' = DropHandle(fate, mapping_task)
    /\ mapping_task' = None
    /\ probing_task' = None
    /\ live_probes' = 0
    /\ current_mapping' = [current_mapping EXCEPT !.timer = "off"]
    /\ released' = IF IsSome(current_mapping.mapping)
                   THEN [released EXCEPT ![Unwrap(current_mapping.mapping).id] = @ + 1]
                   ELSE released
    /\ last' = Arm("Shutdown", local_port, "unused", Cancelled(mapping_task), <<>>)
    /\ UNCHANGED <<nw, client, config, local_port, full_probe, nreq, answered>>

\* The last sender is dropped, if it was not yet, and rx.recv() yields None
\* on the empty channel: the loop breaks and the service is dropped, and
\* with it the handles of its tasks and the current mapping, whose timers
\* stop.  Nothing is sent to the gateway and nothing is published: the
\* mapping and the address are left as they were when the service went.
Shutdown ==
    /\ running
    /\ chan.queued = 0
    /\ chan' = [chan EXCEPT !.senders = FALSE]
    /\ running' = FALSE
    /\ fate' = DropHandle(fate, mapping_task)
    /\ mapping_task' = None
    /\ probing_task' = None
    /\ live_probes' = 0
    /\ current_mapping' = [current_mapping EXCEPT !.timer = "off"]
    /\ last' = Arm("Shutdown", local_port, "unused", Cancelled(mapping_task), <<>>)
    /\ UNCHANGED <<nw, client, config, local_port, full_probe, nreq, answered, released>>

Next ==
    \/ HandleUpdateLocalPort
    \/ HandleProcureMapping
    \/ HandleProbe
    \/ MappingReady
    \/ ProbeReady
    \/ MappingEvent
    \/ Tick
    \/ Shutdown

Spec == Init /\ [][Next]_vars

\* The same service, with room for more Probe requests.
InitProbe == InitService(MaxMapTasksP, MaxProbeReqsP)

SpecProbe == InitProbe /\ [][Next]_vars

\* The same service handling Probe requests alone, with probe tasks that end:
\* the arm of a task that has ended stays ready until select! takes it.
NextReplies ==
    \/ HandleProbe
    \/ ProbeReady
    \/ Tick
    \/ Shutdown

SpecReplies == InitProbe /\ [][NextReplies]_vars /\ WF_vars(ProbeReady)

\* ------------------------------------------------- protocol selection alone

\* What the freshness record may hold of a protocol at instant 0: never
\* seen, seen just now, seen too long ago to be trusted.
Seen == {None, Some(0), Some(0 - AVAILABILITY_TRUST_DURATION)}

\* The service about to make a mapping attempt for port A: every config,
\* every freshness of the three protocols, a last probe that is recent or not.
InitSelect ==
    /\ config \in Configs
    /\ local_port = Some("A")
    /\ current_mapping = CurrentMappingNew
    /\ full_probe \in [last_probe : {0, 0 - UNAVAILABILITY_TRUST_DURATION},
                       last_upnp_gateway_addr : Seen, last_pcp : Seen,
                       last_nat_pmp : Seen]
    /\ mapping_task = None
    /\ probing_task = None
    /\ fate = [i \in {1} |-> "unspawned"]
    /\ live_probes = 0
    /\ nreq = 0
    /\ answered = <<>>
    /\ released = [i \in {1} |-> 0]
    /\ running = TRUE
    /\ chan = ChannelNew
    /\ client = Idle
    /\ nw = Resting
    /\ last = Arm("Init", None, "unused", 0, <<>>)

NextSelect == HandleProcureMapping

SpecSelect == InitSelect /\ [][NextSelect]_vars

\* ------------------------------------------------------- freshness alone

\* The instants of `probe`, d seconds later.
Later(probe, d) ==
    [last_probe |-> probe.last_probe - d,
     last_upnp_gateway_addr |->
         IF IsSome(probe.last_upnp_gateway_addr)
         THEN Some(Unwrap(probe.last_upnp_gateway_addr) - d) ELSE None,
     last_pcp |-> IF IsSome(probe.last_pcp) THEN Some(Unwrap(probe.last_pcp) - d) ELSE None,
     last_nat_pmp |->
         IF IsSome(probe.last_nat_pmp) THEN Some(Unwrap(probe.last_nat_pmp) - d) ELSE None]

\* The service right after a probe that saw any of the three protocols.
InitFresh ==
    /\ config \in Configs
    /\ local_port = None
    /\ current_mapping = CurrentMappingNew
    /\ full_probe \in [last_probe : {now}, last_upnp_gateway_addr : {None, Some(now)},
                       last_pcp : {None, Some(now)}, last_nat_pmp : {None, Some(now)}]
    /\ mapping_task = None
    /\ probing_task = None
    /\ fate = [i \in {1} |-> "unspawned"]
    /\ live_probes = 0
    /\ nreq = 0
    /\ answered = <<>>
    /\ released = [i \in {1} |-> 0]
    /\ running = TRUE
    /\ chan = ChannelNew
    /\ client = Idle
    /\ nw = Resting
    /\ last = Arm("Init", None, "unused", 0, <<>>)

\* The clock advances by UNAVAILABILITY_TRUST_DURATION and nothing else
\* happens.
AdvanceClock ==
    /\ now - full_probe.last_probe < MaxAge
    /\ full_probe' = Later(full_probe, UNAVAILABILITY_TRUST_DURATION)
    /\ last' = Arm("Clock", local_port, "unused", 0, <<>>)
    /\ UNCHANGED <<nw, chan, client, config, local_port, current_mapping, mapping_task,
                   probing_task, fate, live_probes, nreq, answered, released,
                   running>>

NextFresh == AdvanceClock

SpecFresh == InitFresh /\ [][NextFresh]_vars

\* ----------------------------------------------- the loop and its channel

\* The service as Service::new leaves it, with room for one mapping task and
\* one Probe request.
InitLoop ==
    /\ config \in Configs
    /\ local_port = None
    /\ current_mapping = CurrentMappingNew
    /\ full_probe \in {ProbeEmpty(now - AVAILABILITY_TRUST_DURATION), ProbeEmpty(now)}
    /\ mapping_task = None
    /\ probing_task = None
    /\ fate = [i \in {1} |-> "unspawned"]
    /\ live_probes = 0
    /\ nreq = 0
    /\ answered = [r \in {1} |-> 0]
    /\ released = [i \in {1} |-> 0]
    /\ running = TRUE
    /\ chan = ChannelNew
    /\ client = Idle
    /\ nw = Resting
    /\ last = Arm("Init", None, "unused", 0, <<>>)

\* A Client sends a message (try_send) that the loop has not received yet.
Send ==
    /\ running
    /\ chan.senders
    /\ chan.queued < MaxQueued
    /\ chan' = [chan EXCEPT !.queued = @ + 1]
    /\ UNCHANGED <<nw, config, local_port, current_mapping, full_probe, mapping_task,
                   probing_task, fate, live_probes, nreq, answered, released,
                   running, client, last>>

\* The last Client is dropped, and its sender with it.
DropSenders ==
    /\ chan.senders
    /\ chan' = [chan EXCEPT !.senders = FALSE]
    /\ UNCHANGED <<nw, config, local_port, current_mapping, full_probe, mapping_task,
                   probing_task, fate, live_probes, nreq, answered, released,
                   running, client, last>>

\* The last Client dropped, its _service_handle aborts the service task
\* where it waits in the select.
Aborted ==
    /\ running
    /\ ~chan.senders
    /\ running' = FALSE
    /\ fate' = DropHandle(fate, mapping_task)
    /\ mapping_task' = None
    /\ probing_task' = None
    /\ live_probes' = 0
    /\ current_mapping' = [current_mapping EXCEPT !.timer = "off"]
    /\ last' = Arm("Aborted", local_port, "unused", Cancelled(mapping_task), <<>>)
    /\ UNCHANGED <<nw, chan, client, config, local_port, full_probe, nreq, answered,
                   released>>

\* The arm of rx.recv() with a message.
Receive == HandleUpdateLocalPort \/ HandleProcureMapping \/ HandleProbe

\* The arms of the select, the clock standing still, and the Clients.
NextLoop ==
    \/ Receive
    \/ MappingReady
    \/ ProbeReady
    \/ MappingEvent
    \/ Shutdown
    \/ Send
    \/ DropSenders
    \/ Aborted

\* select! polls its arms in random order: an arm that stays ready is taken.
SpecLoop ==
    InitLoop /\ [][NextLoop]_vars /\ WF_vars(Receive) /\ WF_vars(Shutdown)

\* ------------------------------------------------ the Client's requests

\* The messages the channel of Service.rx holds at most.
SERVICE_CHANNEL_CAPACITY == 32

\* mpsc::channel(SERVICE_CHANNEL_CAPACITY) in Client::new, with the state of
\* its receiving end: closed once the service and its rx are gone.
ClientChannel == [senders |-> TRUE, queued |-> 0, closed |-> FALSE]

\* The Client: how many of its Probe messages the channel has accepted, and
\* what probe() put itself into the result_rx it returned last.
ClientNew == [proto |-> "none", accepted |-> 0, result_rx |-> None]

\* The Probe messages waiting in the channel, and the other messages.
QueuedProbes == client.accepted - nreq
QueuedOthers == chan.queued - QueuedProbes

\* try_send on a channel that takes a message whatever it holds.
try_send_Unbounded(c) ==
    IF c.closed
    THEN [chan |-> c, err |-> "Closed"]
    ELSE [chan |-> [c EXCEPT !.queued = @ + 1], err |-> "ok"]

\* service_tx.try_send(msg): the channel it leaves and the error it returns.
try_send(c) ==
    IF c.closed
    THEN [chan |-> c, err |-> "Closed"]
    ELSE IF c.queued >= SERVICE_CHANNEL_CAPACITY
    THEN [chan |-> c, err |-> "Full"]
    ELSE [chan |-> [c EXCEPT !.queued = @ + 1], err |-> "ok"]

\* Client::probe: the Client it leaves, after try_send returned err.
probe(cl, err) ==
    IF err = "ok"
    THEN [cl EXCEPT !.accepted = @ + 1, !.result_rx = None]
    ELSE [cl EXCEPT !.result_rx =
                        Some(Err(IF err = "Full" THEN "ChannelFull" ELSE "ChannelClosed"))]

\* The service as Client::new spawns it, with the Client that holds its
\* channel.
InitRequests ==
    /\ config = [enable_upnp |-> TRUE, enable_pcp |-> TRUE, enable_nat_pmp |-> TRUE]
    /\ local_port = None
    /\ current_mapping = CurrentMappingNew
    /\ full_probe = ProbeEmpty(now - AVAILABILITY_TRUST_DURATION)
    /\ mapping_task = None
    /\ probing_task = None
    /\ fate = [i \in 1..MaxMapTasksP |-> "unspawned"]
    /\ live_probes = 0
    /\ nreq = 0
    /\ answered = [r \in 1..MaxProbeReqsP |-> 0]
    /\ released = [i \in 1..MaxMapTasksP |-> 0]
    /\ running = TRUE
    /\ chan = ClientChannel
    /\ client = ClientNew
    /\ nw = Resting
    /\ last = Arm("Init", None, "unused", 0, <<>>)

\* Client::probe
ClientProbe ==
    /\ chan.senders
    /\ chan' = try_send(chan).chan
    /\ client' = probe(client, try_send(chan).err)
    /\ last' = Arm("Client::probe", local_port, "unused", 0, <<>>)
    /\ UNCHANGED <<nw, config, local_port, current_mapping, full_probe, mapping_task,
                   probing_task, fate, live_probes, nreq, answered, released,
                   running>>

\* Client::procure_mapping: the error of try_send is logged.
ClientProcureMapping ==
    /\ chan.senders
    /\ chan' = try_send(chan).chan
    /\ last' = Arm("Client::procure_mapping", local_port, "unused", 0, <<>>)
    /\ UNCHANGED <<nw, config, local_port, current_mapping, full_probe, mapping_task,
                   probing_task, fate, live_probes, nreq, answered, released,
                   running, client>>

\* rx.recv() yields a Probe message that waited in the channel.
ReceiveProbe ==
    /\ QueuedProbes > 0
    /\ HandleProbe

\* rx.recv() yields a ProcureMapping message that waited in the channel.
ReceiveProcureMapping ==
    /\ QueuedOthers > 0
    /\ HandleProcureMapping

\* The service task ends while the Client lives (the task panicked, or its
\* runtime shut down): the service is dropped, and with it rx, the messages
\* that waited in it and the handles of its tasks.
ServiceGone ==
    /\ running
    /\ running' = FALSE
    /\ chan' = [chan EXCEPT !.closed = TRUE, !.queued = 0]
    /\ fate' = DropHandle(fate, mapping_task)
    /\ mapping_task' = None
    /\ probing_task' = None
    /\ live_probes' = 0
    /\ current_mapping' = [current_mapping EXCEPT !.timer = "off"]
    /\ last' = Arm("ServiceGone", local_port, "unused", Cancelled(mapping_task), <<>>)
    /\ UNCHANGED <<nw, client, config, local_port, full_probe, nreq, answered, released>>

NextRequests ==
    \/ ClientProbe
    \/ ClientProcureMapping
    \/ ReceiveProbe
    \/ ReceiveProcureMapping
    \/ ProbeReady
    \/ ServiceGone

SpecRequests == InitRequests /\ [][NextRequests]_vars

\* ------------------------------------------------------ protocol clients

\* pcp.rs, nat_pmp.rs: the lifetime a map request asks for, in seconds.
PCP_MAPPING_REQUESTED_LIFETIME_SECONDS == 3600
NAT_PMP_MAPPING_REQUESTED_LIFETIME_SECONDS == 7200
\* upnp.rs: the lease asked of the router (0: no expiry), and the half
\* lifetime assumed of a UPnP mapping, in seconds.
PORT_MAPPING_LEASE_DURATION_SECONDS == 0
HALF_LIFETIME == 3600
\* defaults.rs: the receive windows, in milliseconds.
PCP_RECV_TIMEOUT == 500
NAT_PMP_RECV_TIMEOUT == 500
UPNP_SEARCH_TIMEOUT == 1000

\* The values a run of a client is tried with.
LocalPorts == {4000, 5000}
ExternalPorts == {0, 6000}
Nonces == {"n1", "n2"}
Ipv4s == {"ip1", "ip2"}
\* An IPv6 address: its first 96 bits and its last 32.
Ipv6s == {<<hi, lo>> : hi \in {"::ffff", "::", "2001:db8"}, lo \in Ipv4s}
Lifetimes == {0, 3600, 7199}
MapProtocols == {"Udp", "Tcp"}
\* The milliseconds after which a datagram, or the gateway search, comes back.
Delays == {0, 499, 501, 999, 1001}

\* Ipv6Addr::to_ipv4_mapped: the IPv4 address of ::ffff:a.b.c.d, of no other.
to_ipv4_mapped(a) == IF a[1] = "::ffff" THEN Some(a[2]) ELSE None

\* What a receive may meet: a socket error, bytes that do not decode, or one
\* of `responses`, `after` that many milliseconds.
Outcomes(responses) ==
    {[after |-> d, got |-> g] :
        d \in Delays,
        g \in responses \cup {[kind |-> "io_error"], [kind |-> "undecodable"]}}

PcpResponses ==
    {[kind |-> "Announce", lifetime_seconds |-> l] : l \in {0, 3600}}
        \cup [kind : {"MapData"}, lifetime_seconds : Lifetimes, nonce : Nonces,
              protocol : MapProtocols, local_port : LocalPorts,
              external_port : ExternalPorts, external_address : Ipv6s]

NatPmpResponses ==
    [kind : {"PublicAddress"}, public_ip : Ipv4s]
        \cup [kind : {"PortMap"}, proto : MapProtocols, private_port : LocalPorts,
              external_port : ExternalPorts, lifetime_seconds : Lifetimes]

Failed(e) == [ok |-> FALSE, err |-> e]
Done(m) == [ok |-> TRUE, mapping |-> m]

\* A receive that waits for the datagram however late it comes.
Recv_NoTimeout(window, o) == o.got

\* tokio::time::timeout(RECV_TIMEOUT, socket.recv(..)): what the client gets
\* of the outcome `o`.
Recv(window, o) == IF o.after >= window THEN [kind |-> "timed_out"] ELSE o.got

\* What every client makes of a receive that gave it no response.
RecvError(r) ==
    IF r.kind = "timed_out" THEN Failed("Io(TimedOut)")
    ELSE IF r.kind = "io_error" THEN Failed("Io")
    ELSE Failed("Protocol")

\* A client that has just been called: the requests it sent, the outcomes
\* of its receives, where it stands, what it has of the mapping so far and
\* what it returned.
Run(proto, op, port, nonce, preferred, sent, pc, result) ==
    [proto |-> proto, op |-> op, local_port |-> port, nonce |-> nonce,
     preferred |-> preferred, sent |-> sent, rcvd |-> <<>>, pc |-> pc,
     partial |-> None, result |-> result]

\* ----------------------------------------------------------------- PCP
\* protocol::Request::mapping
PcpRequestMapping(nonce, port, requested_port, requested_address, lifetime) ==
    [kind |-> "Map", nonce |-> nonce, protocol |-> "Udp", local_port |-> port,
     external_port |-> requested_port, external_address |-> requested_address,
     lifetime_seconds |-> lifetime]

\* The checks of pcp::Mapping::new without that of the nonce.
pcp_check_NoNonce(nonce, port, response) ==
    IF response.kind = "MapData"
    THEN IF response.protocol /= "Udp" THEN Failed("ProtocolMissmatch")
         ELSE IF response.local_port /= port THEN Failed("PortMissmatch")
         ELSE IF response.external_port = 0 THEN Failed("ZeroExternalPort")
         ELSE IF ~IsSome(to_ipv4_mapped(response.external_address))
         THEN Failed("NotIpv4")
         ELSE Done([kind |-> "pcp", local_port |-> port,
                    external_port |-> response.external_port,
                    external_address |-> Unwrap(to_ipv4_mapped(response.external_address)),
                    lifetime_seconds |-> response.lifetime_seconds,
                    nonce |-> nonce])
    ELSE Failed("InvalidAnnounce")

\* The checks of pcp::Mapping::new taking external port 0 for a port.
pcp_check_AllowZero(nonce, port, response) ==
    IF response.kind = "MapData"
    THEN IF nonce /= response.nonce THEN Failed("NonceMissmatch")
         ELSE IF response.protocol /= "Udp" THEN Failed("ProtocolMissmatch")
         ELSE IF response.local_port /= port THEN Failed("PortMissmatch")
         ELSE IF ~IsSome(to_ipv4_mapped(response.external_address))
         THEN Failed("NotIpv4")
         ELSE Done([kind |-> "pcp", local_port |-> port,
                    external_port |-> response.external_port,
                    external_address |-> Unwrap(to_ipv4_mapped(response.external_address)),
                    lifetime_seconds |-> response.lifetime_seconds,
                    nonce |-> nonce])
    ELSE Failed("InvalidAnnounce")

\* pcp::Mapping::new, from the decoded response on: the match on its data.
pcp_check(nonce, port, response) ==
    IF response.kind = "MapData"
    THEN IF nonce /= response.nonce THEN Failed("NonceMissmatch")
         ELSE IF response.protocol /= "Udp" THEN Failed("ProtocolMissmatch")
         ELSE IF response.local_port /= port THEN Failed("PortMissmatch")
         ELSE IF response.external_port = 0 THEN Failed("ZeroExternalPort")
         ELSE IF ~IsSome(to_ipv4_mapped(response.external_address))
         THEN Failed("NotIpv4")
         ELSE Done([kind |-> "pcp", local_port |-> port,
                    external_port |-> response.external_port,
                    external_address |-> Unwrap(to_ipv4_mapped(response.external_address)),
                    lifetime_seconds |-> response.lifetime_seconds,
                    nonce |-> nonce])
    ELSE Failed("InvalidAnnounce")

\* pcp::Mapping::new up to the first await on the socket: the socket is
\* made and the map request sent, unless the socket fails.
PcpNew ==
    \E port \in LocalPorts, nonce \in Nonces, sendable \in BOOLEAN,
       preferred \in {None} \cup {Some(<<ip, 6000>>) : ip \in Ipv4s} :
        /\ client.proto = "none"
        /\ client' =
               IF sendable
               THEN Run("pcp", "new", port, nonce, preferred,
                        << PcpRequestMapping(
                               nonce, port,
                               IF IsSome(preferred) THEN Some(Unwrap(preferred)[2]) ELSE None,
                               IF IsSome(preferred) THEN Some(Unwrap(preferred)[1]) ELSE None,
                               PCP_MAPPING_REQUESTED_LIFETIME_SECONDS) >>,
                        "recv", None)
               ELSE Run("pcp", "new", port, nonce, preferred, <<>>, "done",
                        Some(Failed("Io")))
        /\ UNCHANGED <<nw, config, local_port, current_mapping, full_probe, mapping_task,
                       probing_task, fate, live_probes, nreq, answered, released,
                       running, chan, last>>

\* pcp::Mapping::new from the receive on.
PcpRecv ==
    \E o \in Outcomes(PcpResponses) :
        /\ client.proto = "pcp"
        /\ client.pc = "recv"
        /\ LET r == Recv(PCP_RECV_TIMEOUT, o)
           IN  client' =
                   [client EXCEPT
                       !.rcvd = Append(@, o),
                       !.pc = "done",
                       !.result =
                           Some(IF r.kind \in {"MapData", "Announce"}
                                THEN pcp_check(client.nonce, client.local_port, r)
                                ELSE RecvError(r))]
        /\ UNCHANGED <<nw, config, local_port, current_mapping, full_probe, mapping_task,
                       probing_task, fate, live_probes, nreq, answered, released,
                       running, chan, last>>

\* ------------------------------------------------------------- NAT-PMP
\* Request::Mapping { proto: MapProtocol::Udp, .. } and
\* Request::ExternalAddress
NatPmpRequestMapping(port, external_port, lifetime) ==
    [kind |-> "Mapping", proto |-> "Udp", local_port |-> port,
     external_port |-> external_port, lifetime_seconds |-> lifetime]

NatPmpRequestExternalAddress == [kind |-> "ExternalAddress"]

\* The opcode that Request::encode gives a request on the wire.
NatPmpOpcode(req) ==
    IF req.kind = "ExternalAddress" THEN 0 ELSE IF req.proto = "Udp" THEN 1 ELSE 2

\* The match on the first response taking a mapping of any protocol.
nat_pmp_check_AnyProto(port, response) ==
    IF response.kind = "PortMap" /\ response.private_port = port
    THEN IF response.external_port = 0 THEN Failed("ZeroExternalPort")
         ELSE Done([external_port |-> response.external_port,
                    lifetime_seconds |-> response.lifetime_seconds])
    ELSE Failed("UnexpectedServerResponse")

\* nat_pmp::Mapping::new, from the first decoded response to the second
\* request: the external port and the lifetime it takes from the response.
nat_pmp_check(port, response) ==
    IF response.kind = "PortMap" /\ response.proto = "Udp"
           /\ response.private_port = port
    THEN IF response.external_port = 0 THEN Failed("ZeroExternalPort")
         ELSE Done([external_port |-> response.external_port,
                    lifetime_seconds |-> response.lifetime_seconds])
    ELSE Failed("UnexpectedServerResponse")

\* nat_pmp::Mapping::new up to the first await on the socket.
NatPmpNew ==
    \E port \in LocalPorts, sendable \in BOOLEAN, external_port \in {None, Some(6000)} :
        /\ client.proto = "none"
        /\ client' =
               IF sendable
               THEN Run("nat_pmp", "new", port, None, external_port,
                        << NatPmpRequestMapping(
                               port,
                               IF IsSome(external_port) THEN Unwrap(external_port) ELSE 0,
                               NAT_PMP_MAPPING_REQUESTED_LIFETIME_SECONDS) >>,
                        "recv", None)
               ELSE Run("nat_pmp", "new", port, None, external_port, <<>>, "done",
                        Some(Failed("Io")))
        /\ UNCHANGED <<nw, config, local_port, current_mapping, full_probe, mapping_task,
                       probing_task, fate, live_probes, nreq, answered, released,
                       running, chan, last>>

\* nat_pmp::Mapping::new from the first receive to the second send.
NatPmpRecvMap ==
    \E o \in Outcomes(NatPmpResponses), sendable \in BOOLEAN :
        /\ client.proto = "nat_pmp"
        /\ client.pc = "recv"
        /\ LET r == Recv(NAT_PMP_RECV_TIMEOUT, o)
               checked == IF r.kind \in {"PortMap", "PublicAddress"}
                          THEN nat_pmp_check(client.local_port, r)
                          ELSE RecvError(r)
           IN  client' =
                   IF ~checked.ok
                   THEN [client EXCEPT !.rcvd = Append(@, o), !.pc = "done",
                                       !.result = Some(checked)]
                   ELSE IF ~sendable
                   THEN [client EXCEPT !.rcvd = Append(@, o), !.pc = "done",
                                       !.result = Some(Failed("Io"))]
                   ELSE [client EXCEPT !.rcvd = Append(@, o), !.pc = "recv_addr",
                                       !.partial = Some(checked.mapping),
                                       !.sent = Append(@, NatPmpRequestExternalAddress)]
        /\ UNCHANGED <<nw, config, local_port, current_mapping, full_probe, mapping_task,
                       probing_task, fate, live_probes, nreq, answered, released,
                       running, chan, last>>

\* nat_pmp::Mapping::new from the second receive on.
NatPmpRecvAddr ==
    \E o \in Outcomes(NatPmpResponses) :
        /\ client.proto = "nat_pmp"
        /\ client.pc = "recv_addr"
        /\ LET r == Recv(NAT_PMP_RECV_TIMEOUT, o)
           IN  client' =
                   [client EXCEPT
                       !.rcvd = Append(@, o),
                       !.pc = "done",
                       !.result =
                           Some(IF r.kind = "PublicAddress"
                                THEN Done([kind |-> "nat_pmp",
                                           local_port |-> client.local_port,
                                           external_port |-> Unwrap(client.partial).external_port,
                                           external_addr |-> r.public_ip,
                                           lifetime_seconds |->
                                               Unwrap(client.partial).lifetime_seconds])
                                ELSE IF r.kind = "PortMap"
                                THEN Failed("UnexpectedServerResponse")
                                ELSE RecvError(r))]
        /\ UNCHANGED <<nw, config, local_port, current_mapping, full_probe, mapping_task,
                       probing_task, fate, live_probes, nreq, answered, released,
                       running, chan, last>>

\* ---------------------------------------------------------------- UPnP
\* Gateway::add_port asking for a lease of two hours.
add_port_TwoHours(external_port, local_addr) ==
    [kind |-> "AddPortMapping", protocol |-> "UDP", external_port |-> external_port,
     local_addr |-> local_addr, lease_duration |-> 7200]

\* Gateway::add_port and Gateway::add_any_port as upnp::Mapping::new calls
\* them.
add_port(external_port, local_addr) ==
    [kind |-> "AddPortMapping", protocol |-> "UDP", external_port |-> external_port,
     local_addr |-> local_addr, lease_duration |-> PORT_MAPPING_LEASE_DURATION_SECONDS]

add_any_port(local_addr) ==
    [kind |-> "AddAnyPortMapping", protocol |-> "UDP", local_addr |-> local_addr,
     lease_duration |-> PORT_MAPPING_LEASE_DURATION_SECONDS]

\* What a call of the gateway came back with; these calls are awaited
\* without a window.
Reply(got) == [after |-> 0, got |-> got]

\* The outcomes of the calls upnp::Mapping::new made, one for each of the
\* n requests it sent.
Replies(n, gateway, search, external_ip, preferred_port, added, any) ==
    LET every == (IF IsSome(gateway) THEN <<>> ELSE <<search>>)
                     \o << Reply(external_ip) >>
                     \o (IF IsSome(preferred_port)
                         THEN << Reply([kind |-> "AddPortMapping", ok |-> added]) >>
                         ELSE <<>>)
                     \o << Reply([kind |-> "AddAnyPortMapping"] @@ any) >>
    IN  SubSeq(every, 1, n)

\* upnp::Mapping::new asking for any port, a preferred port given or not.
upnp_new_NoPreferred(port, gateway, preferred_port, search, external_ip, added, any) ==
    LET searched == IF IsSome(gateway) THEN <<>> ELSE << [kind |-> "Search"] >>
        asked == Append(searched, [kind |-> "GetExternalIPAddress"])
        all == Append(asked, add_any_port(port))
        run(sent, result) ==
            [Run("upnp", "new", port, None, preferred_port, sent, "done", Some(result))
                EXCEPT !.rcvd = Replies(Len(sent), gateway, search, external_ip,
                                        None, added, any)]
    IN  IF ~IsSome(gateway) /\ search.after >= UPNP_SEARCH_TIMEOUT
        THEN run(searched, Failed("Io(TimedOut)"))
        ELSE IF ~IsSome(gateway) /\ search.got.kind /= "found"
        THEN run(searched, Failed("Search"))
        ELSE IF external_ip.kind = "error" THEN run(asked, Failed("GetExternalIp"))
        ELSE IF external_ip.kind /= "V4" THEN run(asked, Failed("NotIpv4"))
        ELSE IF ~any.ok THEN run(all, Failed("AddAnyPort"))
        ELSE IF any.port = 0 THEN run(all, Failed("ZeroExternalPort"))
        ELSE run(all, Done([kind |-> "upnp", local_port |-> port,
                            external_ip |-> external_ip.ip,
                            external_port |-> any.port]))

\* upnp::Mapping::new looking at the family of the external address once the
\* port is mapped.
upnp_new_AddFirst(port, gateway, preferred_port, search, external_ip, added, any) ==
    LET searched == IF IsSome(gateway) THEN <<>> ELSE << [kind |-> "Search"] >>
        asked == Append(searched, [kind |-> "GetExternalIPAddress"])
        tried == IF IsSome(preferred_port)
                 THEN Append(asked, add_port(Unwrap(preferred_port), port))
                 ELSE asked
        all == Append(tried, add_any_port(port))
        run(sent, result) ==
            [Run("upnp", "new", port, None, preferred_port, sent, "done", Some(result))
                EXCEPT !.rcvd = Replies(Len(sent), gateway, search, external_ip,
                                        preferred_port, added, any)]
    IN  IF ~IsSome(gateway) /\ search.after >= UPNP_SEARCH_TIMEOUT
        THEN run(searched, Failed("Io(TimedOut)"))
        ELSE IF ~IsSome(gateway) /\ search.got.kind /= "found"
        THEN run(searched, Failed("Search"))
        ELSE IF external_ip.kind = "error" THEN run(asked, Failed("GetExternalIp"))
        ELSE IF IsSome(preferred_port) /\ added
        THEN IF external_ip.kind /= "V4" THEN run(tried, Failed("NotIpv4"))
             ELSE run(tried, Done([kind |-> "upnp", local_port |-> port,
                                   external_ip |-> external_ip.ip,
                                   external_port |-> Unwrap(preferred_port)]))
        ELSE IF ~any.ok THEN run(all, Failed("AddAnyPort"))
        ELSE IF any.port = 0 THEN run(all, Failed("ZeroExternalPort"))
        ELSE IF external_ip.kind /= "V4" THEN run(all, Failed("NotIpv4"))
        ELSE run(all, Done([kind |-> "upnp", local_port |-> port,
                            external_ip |-> external_ip.ip,
                            external_port |-> any.port]))

\* upnp::Mapping::new: the requests it makes, what they come back with and
\* what it returns, given what the search, get_external_ip, add_port and
\* add_any_port come back with.
upnp_new(port, gateway, preferred_port, search, external_ip, added, any) ==
    LET searched == IF IsSome(gateway) THEN <<>> ELSE << [kind |-> "Search"] >>
        asked == Append(searched, [kind |-> "GetExternalIPAddress"])
        tried == IF IsSome(preferred_port)
                 THEN Append(asked, add_port(Unwrap(preferred_port), port))
                 ELSE asked
        all == Append(tried, add_any_port(port))
        run(sent, result) ==
            [Run("upnp", "new", port, None, preferred_port, sent, "done", Some(result))
                EXCEPT !.rcvd = Replies(Len(sent), gateway, search, external_ip,
                                        preferred_port, added, any)]
    IN  IF ~IsSome(gateway) /\ search.after >= UPNP_SEARCH_TIMEOUT
        THEN run(searched, Failed("Io(TimedOut)"))
        ELSE IF ~IsSome(gateway) /\ search.got.kind /= "found"
        THEN run(searched, Failed("Search"))
        ELSE IF external_ip.kind = "error" THEN run(asked, Failed("GetExternalIp"))
        ELSE IF external_ip.kind /= "V4" THEN run(asked, Failed("NotIpv4"))
        ELSE IF IsSome(preferred_port) /\ added
        THEN run(tried, Done([kind |-> "upnp", local_port |-> port,
                              external_ip |-> external_ip.ip,
                              external_port |-> Unwrap(preferred_port)]))
        ELSE IF ~any.ok THEN run(all, Failed("AddAnyPort"))
        ELSE IF any.port = 0 THEN run(all, Failed("ZeroExternalPort"))
        ELSE run(all, Done([kind |-> "upnp", local_port |-> port,
                            external_ip |-> external_ip.ip,
                            external_port |-> any.port]))

UpnpNew ==
    \E port \in LocalPorts, gateway \in {None, Some("igd")},
       preferred_port \in {None, Some(6000)},
       search \in [after : Delays, got : {[kind |-> "found"], [kind |-> "error"]}],
       external_ip \in {[kind |-> "error"], [kind |-> "V6"]}
                           \cup [kind : {"V4"}, ip : Ipv4s],
       added \in BOOLEAN,
       any \in {[ok |-> FALSE]} \cup [ok : {TRUE}, port : {0, 7000}] :
        /\ client.proto = "none"
        /\ client' = upnp_new(port, gateway, preferred_port, search, external_ip,
                              added, any)
        /\ UNCHANGED <<nw, config, local_port, current_mapping, full_probe, mapping_task,
                       probing_task, fate, live_probes, nreq, answered, released,
                       running, chan, last>>

\* -------------------------------------------------------------- mappings
\* PortMapped::half_lifetime of every kind of mapping, in seconds.
half_lifetime(m) ==
    IF m.kind = "upnp" THEN HALF_LIFETIME ELSE m.lifetime_seconds \div 2

\* A NAT-PMP release that asks for the mapping's lifetime anew.
release_request_Renew(m) ==
    IF m.kind = "nat_pmp"
    THEN NatPmpRequestMapping(m.local_port, 0, NAT_PMP_MAPPING_REQUESTED_LIFETIME_SECONDS)
    ELSE IF m.kind = "pcp"
    THEN PcpRequestMapping(m.nonce, m.local_port, None, None, 0)
    ELSE [kind |-> "DeletePortMapping", protocol |-> "UDP",
          external_port |-> m.external_port]

\* The request that Mapping::release makes of each kind of mapping.
release_request(m) ==
    IF m.kind = "nat_pmp" THEN NatPmpRequestMapping(m.local_port, 0, 0)
    ELSE IF m.kind = "pcp"
    THEN PcpRequestMapping(m.nonce, m.local_port, None, None, 0)
    ELSE [kind |-> "DeletePortMapping", protocol |-> "UDP",
          external_port |-> m.external_port]

\* Mapping::release of the mapping a client returned: NAT-PMP and PCP send
\* the request and return, UPnP waits for remove_port to come back.
Release ==
    \E sendable \in BOOLEAN, removed \in BOOLEAN :
        /\ client.proto /= "none"
        /\ client.op = "new"
        /\ client.pc = "done"
        /\ Unwrap(client.result).ok
        /\ LET m == Unwrap(client.result).mapping
           IN  client' =
                   IF m.kind = "upnp"
                   THEN Run("upnp", "release", client.local_port, None, None,
                            <<release_request(m)>>, "done",
                            Some(IF removed THEN Done(m) ELSE Failed("RemovePort")))
                   ELSE IF sendable
                   THEN Run(m.kind, "release", client.local_port, client.nonce, None,
                            <<release_request(m)>>, "done", Some(Done(m)))
                   ELSE Run(m.kind, "release", client.local_port, client.nonce, None, <<>>,
                            "done", Some(Failed("Io")))
        /\ UNCHANGED <<nw, config, local_port, current_mapping, full_probe, mapping_task,
                       probing_task, fate, live_probes, nreq, answered, released,
                       running, chan, last>>

\* No service runs beside the client: Service::new with Config::default().
InitClient ==
    /\ config = [enable_upnp |-> TRUE, enable_pcp |-> TRUE, enable_nat_pmp |-> TRUE]
    /\ local_port = None
    /\ current_mapping = CurrentMappingNew
    /\ full_probe = ProbeEmpty(now)
    /\ mapping_task = None
    /\ probing_task = None
    /\ fate = [i \in {1} |-> "unspawned"]
    /\ live_probes = 0
    /\ nreq = 0
    /\ answered = <<>>
    /\ released = [i \in {1} |-> 0]
    /\ running = TRUE
    /\ chan = ChannelNew
    /\ client = Idle
    /\ nw = Resting
    /\ last = Arm("Init", None, "unused", 0, <<>>)

NextClient ==
    \/ PcpNew
    \/ PcpRecv
    \/ NatPmpNew
    \/ NatPmpRecvMap
    \/ NatPmpRecvAddr
    \/ UpnpNew
    \/ Release

SpecClient == InitClient /\ [][NextClient]_vars

\* --------------------------------------------------------------- netwatch

\* The variables of the portmapper, which netwatch leaves alone.
pm_vars == <<config, local_port, current_mapping, full_probe, mapping_task,
             probing_task, fate, live_probes, nreq, answered, released, running,
             chan, client, last>>

\* No service and no client of the portmapper runs, and no function of
\* netwatch has been called yet.
InitNetwatch ==
    /\ config = [enable_upnp |-> TRUE, enable_pcp |-> TRUE, enable_nat_pmp |-> TRUE]
    /\ local_port = None
    /\ current_mapping = CurrentMappingNew
    /\ full_probe = ProbeEmpty(now)
    /\ mapping_task = None
    /\ probing_task = None
    /\ fate = [i \in {1} |-> "unspawned"]
    /\ live_probes = 0
    /\ nreq = 0
    /\ answered = <<>>
    /\ released = [i \in {1} |-> 0]
    /\ running = TRUE
    /\ chan = ChannelNew
    /\ client = Idle
    /\ nw = Resting
    /\ last = Arm("Init", None, "unused", 0, <<>>)

\* ------------------------------------------------------------- fetch_rib
\* bsd.rs, fetch_rib: const MAX_TRIES
MAX_TRIES == 3

\* The bytes the kernel may have for a routing table.
MaxRibLen == 2

\* What a sysctl call comes back with: an errno, or the length n it sets.
SysctlOutcomes ==
    [ok : {FALSE}, errno : {"ENOMEM", "EPERM"}] \cup [ok : {TRUE}, n : 0..MaxRibLen]

\* fetch_rib trying again after every ENOMEM.
Retry_Always(errno, round) == errno = "ENOMEM"

\* fetch_rib: whether the loop goes round again after the fill failed.
Retry(errno, round) == errno = "ENOMEM" /\ round < MAX_TRIES

\* fetch_rib is called.
FetchRib ==
    /\ nw.fn = "none"
    /\ nw' = [fn |-> "fetch_rib", pc |-> "size", round |-> 0, n |-> 0,
              calls |-> <<>>, result |-> None]
    /\ UNCHANGED pm_vars

\* fetch_rib from the top of the loop to the allocation of the buffer: the
\* sysctl that asks for the size.
FetchRibSize ==
    /\ nw.fn = "fetch_rib"
    /\ nw.pc = "size"
    /\ \E o \in SysctlOutcomes :
        /\ LET called == [nw EXCEPT !.round = @ + 1,
                                     !.calls = Append(@, [call |-> "size", got |-> o])]
           IN  nw' = IF ~o.ok
                     THEN [called EXCEPT !.pc = "done",
                                         !.result = Some(Failed(<<"Io", o.errno>>))]
                     ELSE IF o.n = 0
                     THEN [called EXCEPT !.pc = "done", !.result = Some(Done(0))]
                     ELSE [called EXCEPT !.pc = "fill", !.n = o.n]
        /\ UNCHANGED pm_vars

\* fetch_rib from the sysctl that fills the buffer to the end of the loop's
\* body; the table returned is told by its length.
FetchRibFill ==
    /\ nw.fn = "fetch_rib"
    /\ nw.pc = "fill"
    /\ \E o \in SysctlOutcomes :
        /\ o.ok => o.n <= nw.n
        /\ LET called == [nw EXCEPT !.calls = Append(@, [call |-> "fill", got |-> o])]
           IN  nw' = IF ~o.ok /\ Retry(o.errno, nw.round)
                     THEN [called EXCEPT !.pc = "size"]
                     ELSE IF ~o.ok
                     THEN [called EXCEPT !.pc = "done",
                                         !.result = Some(Failed(<<"Io", o.errno>>))]
                     ELSE [called EXCEPT !.pc = "done", !.n = o.n,
                                         !.result = Some(Done(o.n))]
        /\ UNCHANGED pm_vars

\* ------------------------------------------------------------- parse_rib
\* The messages a routing table given to parse_rib may hold.
MaxMsgs == 2

\* The rounds of parse_rib's loop that are followed.
MaxRounds == 4

\* A message of the routing table: the length l its first two bytes declare,
\* the bytes it has, its version byte, and what comes of its type byte: no
\* wire format, or a wire format whose parse gives a message, nothing or an
\* error.
RibMessages ==
    [l : {0, 8, 12}, have : {4, 8}, version : {"rtm_version", "other"},
     parse : {"no format", "message", "nothing", "error"}]

\* The routing tables: every message but the last is whole.
Ribs ==
    {d \in UNION {[1..n -> RibMessages] : n \in 0..MaxMsgs} :
        \A i \in 1..(Len(d) - 1) : d[i].l = 8 /\ d[i].have = 8}

RECURSIVE BLen(_)
\* b.len(): the bytes left of the table.
BLen(b) == IF b = <<>> THEN 0 ELSE b[1].have + BLen(Tail(b))

\* parse_rib is called on a table, for a type of table that is valid or not.
ParseRib ==
    /\ nw.fn = "none"
    /\ \E data \in Ribs, valid \in BOOLEAN :
        /\ nw' = [fn |-> "parse_rib", data |-> data, b |-> data, msgs |-> <<>>,
                  nmsgs |-> 0, nskips |-> 0,
                  pc |-> IF valid THEN "loop" ELSE "done",
                  result |-> IF valid THEN None
                             ELSE Some(Failed("InvalidRibType"))]
        /\ UNCHANGED pm_vars

\* One round of parse_rib's loop.
ParseRibRound ==
    /\ nw.fn = "parse_rib"
    /\ nw.pc = "loop"
    /\ BLen(nw.b) > 4
    /\ nw.nmsgs < MaxRounds
    /\ LET m == nw.b[1]
           counted == [nw EXCEPT !.nmsgs = @ + 1]
       IN  nw' = IF m.l = 0
                 THEN [counted EXCEPT !.pc = "done",
                                      !.result = Some(Failed("InvalidMessage"))]
                 ELSE IF BLen(nw.b) < m.l
                 THEN [counted EXCEPT !.pc = "done",
                                      !.result = Some(Failed("MessageTooShort"))]
                 ELSE IF m.version # "rtm_version"
                 THEN counted
                 ELSE IF m.parse = "error"
                 THEN [counted EXCEPT !.pc = "done",
                                      !.result = Some(Failed("InvalidAddress"))]
                 ELSE IF m.parse = "message"
                 THEN [counted EXCEPT !.msgs = Append(@, m), !.b = Tail(@)]
                 ELSE [counted EXCEPT !.nskips = @ + 1, !.b = Tail(@)]
    /\ UNCHANGED pm_vars

\* parse_rib after its loop.
ParseRibReturn ==
    /\ nw.fn = "parse_rib"
    /\ nw.pc = "loop"
    /\ BLen(nw.b) <= 4
    /\ nw' = [nw EXCEPT !.pc = "done",
                        !.result = IF nw.nmsgs = Len(nw.msgs) + nw.nskips
                                   THEN Some(Done(nw.msgs))
                                   ELSE Some(Failed("MessageMismatch"))]
    /\ UNCHANGED pm_vars

\* ------------------------------------------------------ is_default_gateway
\* libc: the places of the addresses of a route
RTAX_DST == 0
RTAX_GATEWAY == 1
RTAX_NETMASK == 2
\* the bits of RTA_IFP and RTA_IFA
RTAX_IFP == 4
RTAX_IFA == 5

\* The route messages a parsed table may hold when it is searched.
MaxRoutes == 2

V4_DEFAULT == "0.0.0.0"
V6_DEFAULT == "::"

\* Addr: the addresses a route message may hold.
Addrs ==
    [af : {"Inet4"}, ip : {V4_DEFAULT, "10.0.0.1"}]
        \cup [af : {"Inet6"}, ip : {V6_DEFAULT, "fe80::1"}]
        \cup [af : {"Link"}, index : {1}]

\* RouteMessage: the flags, the interface index and the addresses.
RouteMessages ==
    [flags : SUBSET {"RTF_GATEWAY", "RTF_IFSCOPE"}, index : {1, 2},
     addrs : UNION {[1..n -> Addrs] : n \in 0..3}]

\* The route messages of the tables that are searched: with or without a
\* gateway, to everywhere over IPv4 or IPv6 or to one network.
TableRoutes ==
    {rm \in RouteMessages :
        /\ rm.flags \in {{}, {"RTF_GATEWAY"}}
        /\ rm.addrs \in
              {<<[af |-> "Inet4", ip |-> V4_DEFAULT], [af |-> "Inet4", ip |-> "10.0.0.1"],
                 [af |-> "Inet4", ip |-> V4_DEFAULT]>>,
               <<[af |-> "Inet6", ip |-> V6_DEFAULT], [af |-> "Inet6", ip |-> "fe80::1"],
                 [af |-> "Inet6", ip |-> V6_DEFAULT]>>,
               <<[af |-> "Inet4", ip |-> "10.0.0.1"], [af |-> "Link", index |-> 1],
                 [af |-> "Inet4", ip |-> V4_DEFAULT]>>}}

\* is_default_gateway without the test of RTF_IFSCOPE.
is_default_gateway_AnyScope(darwin, rm) ==
    IF "RTF_GATEWAY" \notin rm.flags THEN FALSE
    ELSE IF Len(rm.addrs) <= RTAX_NETMASK THEN FALSE
    ELSE LET dst == rm.addrs[RTAX_DST + 1]
             netmask == rm.addrs[RTAX_NETMASK + 1]
         IN  IF dst.af = "Inet4" /\ netmask.af = "Inet4"
             THEN dst.ip = V4_DEFAULT /\ netmask.ip = V4_DEFAULT
             ELSE IF dst.af = "Inet6" /\ netmask.af = "Inet6"
             THEN dst.ip = V6_DEFAULT /\ netmask.ip = V6_DEFAULT
             ELSE FALSE

\* is_default_gateway; darwin tells the build for macos and ios.
is_default_gateway(darwin, rm) ==
    IF "RTF_GATEWAY" \notin rm.flags THEN FALSE
    ELSE IF darwin /\ "RTF_IFSCOPE" \in rm.flags THEN FALSE
    ELSE IF Len(rm.addrs) <= RTAX_NETMASK THEN FALSE
    ELSE LET dst == rm.addrs[RTAX_DST + 1]
             netmask == rm.addrs[RTAX_NETMASK + 1]
         IN  IF dst.af = "Inet4" /\ netmask.af = "Inet4"
             THEN dst.ip = V4_DEFAULT /\ netmask.ip = V4_DEFAULT
             ELSE IF dst.af = "Inet6" /\ netmask.af = "Inet6"
             THEN dst.ip = V6_DEFAULT /\ netmask.ip = V6_DEFAULT
             ELSE FALSE

RECURSIVE FirstDefault(_, _)
\* default_route_interface_index: the loop over the messages.
FirstDefault(darwin, msgs) ==
    IF msgs = <<>> THEN None
    ELSE IF is_default_gateway(darwin, msgs[1]) THEN Some(msgs[1].index)
    ELSE FirstDefault(darwin, Tail(msgs))

\* is_default_gateway is called on a route message.
IsDefaultGateway ==
    /\ nw.fn = "none"
    /\ \E darwin \in BOOLEAN, rm \in RouteMessages :
        /\ nw' = [fn |-> "is_default_gateway", darwin |-> darwin, msgs |-> <<rm>>,
                  result |-> is_default_gateway(darwin, rm)]
        /\ UNCHANGED pm_vars

\* default_route_interface_index is called; the table is what
\* parse_routing_table made of the kernel's routes, or none when the table
\* could not be fetched or parsed.
DefaultRouteInterfaceIndex ==
    /\ nw.fn = "none"
    /\ \E darwin \in BOOLEAN,
          table \in {None} \cup
              {Some(t) : t \in UNION {[1..n -> TableRoutes] : n \in 0..MaxRoutes}} :
        /\ nw' = [fn |-> "default_route_interface_index", darwin |-> darwin,
                  table |-> table,
                  msgs |-> IF IsSome(table) THEN Unwrap(table) ELSE <<>>,
                  result |-> IF IsSome(table) THEN FirstDefault(darwin, Unwrap(table))
                             ELSE None]
        /\ UNCHANGED pm_vars

\* ------------------------------------------------------------ parse_addrs
RTAX_BRD == 7
RTAX_MAX == 8

\* ROUTING_STACK.kernel_align: the size of a long.
kernel_align == 8

\* The socket addresses that follow the header of a message.
MaxSockaddrs == 3

\* roundup: l rounded up to the kernel's alignment, one unit for 0.
roundup(l) ==
    IF l = 0 THEN kernel_align
    ELSE ((l + kernel_align - 1) \div kernel_align) * kernel_align

\* A socket address as the kernel writes it: its length byte, its family
\* byte, and what its other bytes tell.
Sockaddrs ==
    [len : {16}, af : {"AF_INET"}, ip : {V4_DEFAULT, "10.0.0.1"}]
        \cup [len : {28}, af : {"AF_INET6"}, ip : {V6_DEFAULT}]
        \cup [len : {24}, af : {"AF_LINK"}, index : {1}]
        \cup [len : {7}, af : {"AF_UNSPEC"}, ip : {"255.255.255.0"}]

\* The attribute masks, as the set of the bits they have.
Attrs == {a \in SUBSET (0..(RTAX_MAX - 1)) : Cardinality(a) <= MaxSockaddrs}

RECURSIVE SockLen(_)
\* b.len() when b starts at these socket addresses: each one takes its
\* length rounded up.
SockLen(b) == IF b = <<>> THEN 0 ELSE roundup(b[1].len) + SockLen(Tail(b))

\* parse_link_addr, parse_inet_addr, the default_fn parse_kernel_inet_addr
\* and parse_default_addr: the Addr read from the socket address at place i.
Decode(i, sa) ==
    IF i > RTAX_BRD THEN [af |-> "Default", raw |-> sa]
    ELSE IF sa.af = "AF_LINK" THEN [af |-> "Link", index |-> sa.index]
    ELSE IF sa.af = "AF_INET" THEN [af |-> "Inet4", ip |-> sa.ip]
    ELSE IF sa.af = "AF_INET6" THEN [af |-> "Inet6", ip |-> sa.ip]
    ELSE IF sa.len = 28 THEN [af |-> "Inet6", ip |-> sa.ip]
    ELSE [af |-> "Inet4", ip |-> sa.ip]

RECURSIVE parse_addrs_Slots(_, _, _, _)
\* parse_addrs keeping one slot per bit of the mask, empty for a clear bit.
parse_addrs_Slots(i, attrs, b, addrs) ==
    IF i >= RTAX_MAX \/ SockLen(b) < roundup(0) THEN Done(addrs)
    ELSE IF i \notin attrs
    THEN parse_addrs_Slots(i + 1, attrs, b, Append(addrs, [af |-> "nil"]))
    ELSE parse_addrs_Slots(i + 1, attrs, Tail(b), Append(addrs, Decode(i, b[1])))

RECURSIVE parse_addrs(_, _, _, _)
\* parse_addrs from the round i of its loop on: the bits of the mask, the
\* bytes left, the addresses pushed so far.
parse_addrs(i, attrs, b, addrs) ==
    IF i >= RTAX_MAX \/ SockLen(b) < roundup(0) THEN Done(addrs)
    ELSE IF i \notin attrs THEN parse_addrs(i + 1, attrs, b, addrs)
    ELSE parse_addrs(i + 1, attrs, Tail(b), Append(addrs, Decode(i, b[1])))

\* parse_addrs is called on the mask and the body of a message.
ParseAddrs ==
    /\ nw.fn = "none"
    /\ \E attrs \in Attrs, data \in UNION {[1..n -> Sockaddrs] : n \in 0..MaxSockaddrs} :
        /\ nw' = [fn |-> "parse_addrs", attrs |-> attrs, data |-> data,
                  result |-> parse_addrs(0, attrs, data, <<>>)]
        /\ UNCHANGED pm_vars

\* -------------------------------------------------------- parse_inet_addr
\* The sizes of sockaddr_in and sockaddr_in6.
SIZEOF_SOCKADDR_INET == 16
SIZEOF_SOCKADDR_INET6 == 28

\* What parse_inet_addr is given: the family and the bytes b. Of a
\* sockaddr_in the bytes 4..8 are told, of a sockaddr_in6 the first four
\* bytes oc of the address at 8..24, the others being copied as they are,
\* and the scope id at 24..28.
InetInputs ==
    [af : {"AF_INET"}, have : {15, 16}, ip : {V4_DEFAULT, "10.0.0.1"}]
        \cup [af : {"AF_INET6"}, have : {27, 28},
              oc : {0, 32, 254, 255} \X {0, 1, 2, 18, 21, 127, 128, 191, 192}
                      \X {0, 1} \X {0, 1},
              scope_id : {0, 7}]
        \cup [af : {"AF_LINK"}, have : {28}]

\* parse_inet_addr reading the embedded interface index the other way round.
parse_inet_addr_LittleEndian(af, b) ==
    IF af = "AF_INET"
    THEN IF b.have < SIZEOF_SOCKADDR_INET THEN Failed("InvalidAddress")
         ELSE Done([af |-> "Inet4", ip |-> b.ip])
    ELSE IF af = "AF_INET6"
    THEN IF b.have < SIZEOF_SOCKADDR_INET6 THEN Failed("InvalidAddress")
         ELSE LET oc == b.oc
                  id == oc[4] * 256 + oc[3]
              IN  IF /\ \/ oc[1] = 254 /\ oc[2] \div 64 = 2
                        \/ oc[1] = 255 /\ (oc[2] % 16 = 1 \/ oc[2] % 16 = 2)
                     /\ id # 0
                  THEN Done([af |-> "Inet6", ip |-> <<oc[1], oc[2], 0, 0>>, zone |-> id])
                  ELSE Done([af |-> "Inet6", ip |-> oc, zone |-> b.scope_id])
    ELSE Failed("InvalidAddress")

\* parse_inet_addr; oc[1] & 0xc0 == 0x80 is oc[1] / 64 = 2 and oc[1] & 0x0f
\* is oc[1] % 16 (the tuple oc is counted from 1).
parse_inet_addr(af, b) ==
    IF af = "AF_INET"
    THEN IF b.have < SIZEOF_SOCKADDR_INET THEN Failed("InvalidAddress")
         ELSE Done([af |-> "Inet4", ip |-> b.ip])
    ELSE IF af = "AF_INET6"
    THEN IF b.have < SIZEOF_SOCKADDR_INET6 THEN Failed("InvalidAddress")
         ELSE LET oc == b.oc
                  id == oc[3] * 256 + oc[4]
              IN  IF /\ \/ oc[1] = 254 /\ oc[2] \div 64 = 2
                        \/ oc[1] = 255 /\ (oc[2] % 16 = 1 \/ oc[2] % 16 = 2)
                     /\ id # 0
                  THEN Done([af |-> "Inet6", ip |-> <<oc[1], oc[2], 0, 0>>, zone |-> id])
                  ELSE Done([af |-> "Inet6", ip |-> oc, zone |-> b.scope_id])
    ELSE Failed("InvalidAddress")

\* parse_inet_addr is called.
ParseInetAddr ==
    /\ nw.fn = "none"
    /\ \E b \in InetInputs :
        /\ nw' = [fn |-> "parse_inet_addr", af |-> b.af, b |-> b,
                  result |-> parse_inet_addr(b.af, b)]
        /\ UNCHANGED pm_vars

NextNetwatch ==
    \/ FetchRib
    \/ FetchRibSize
    \/ FetchRibFill
    \/ ParseRib
    \/ ParseRibRound
    \/ ParseRibReturn
    \/ IsDefaultGateway
    \/ DefaultRouteInterfaceIndex
    \/ ParseAddrs
    \/ ParseInetAddr

SpecNetwatch == InitNetwatch /\ [][NextNetwatch]_vars

\* --------------------------------------------------------- netmon (linux)
\* RouteMonitor::new: const MAX_BACKOFF, in seconds
MAX_BACKOFF == 30

IfIndexes == {1, 2}
IfAddrs == {"a1", "a2"}

\* The destinations of a route: none, an address of a family the monitor
\* knows, with what is_multicast and is_link_local say of it, or another
\* kind of address.
Destinations ==
    {None} \cup {Some([kind |-> "other"])}
        \cup {Some(d) : d \in [kind : {"Inet", "Inet6"}, multicast : BOOLEAN,
                                link_local : BOOLEAN]}

\* The messages the netlink stream may deliver.
NetlinkMessages ==
    [payload : {"Error", "Done", "Noop"}]
        \cup [payload : {"NewAddress", "DelAddress"}, index : IfIndexes,
              address : {None} \cup {Some(a) : a \in IfAddrs}]
        \cup [payload : {"NewRoute", "DelRoute"},
              table : {None, Some(254), Some(255), Some(100)}, dst : Destinations]
        \cup [payload : {"NewRule", "DelRule", "NewLink", "DelLink", "NewNeighbour"}]

\* get_nla!(msg, Table).copied().unwrap_or_default()
RouteTable(m) == IF IsSome(m.table) THEN Unwrap(m.table) ELSE 0

\* process_messages telling of every route.
Suppressed_Never(m) == FALSE

\* process_messages, NewRoute | DelRoute: the routes it does not tell of.
Suppressed(m) ==
    /\ IsSome(m.dst)
    /\ Unwrap(m.dst).kind \in {"Inet", "Inet6"}
    /\ RouteTable(m) = 255 \/ RouteTable(m) = 254
    /\ Unwrap(m.dst).multicast \/ Unwrap(m.dst).link_local

\* The monitor doubling its wait whatever came of the last setup.
Connected_KeepBackoff(backoff) == backoff

\* RouteMonitor::new: the backoff after setup_netlink gave a connection.
Connected(backoff) == 1

\* RouteMonitor::new: the task of the monitor is spawned.
RouteMonitorNew ==
    /\ nw.fn = "none"
    /\ nw' = [fn |-> "RouteMonitor", pc |-> "setup", backoff |-> 1,
              addr_cache |-> [i \in IfIndexes |-> {}], receiver |-> TRUE,
              msg |-> None, sends |-> 0, wait |-> 0, connected |-> FALSE]
    /\ UNCHANGED pm_vars

\* The loop with an addr_cache that outlives the connection.
SetupNetlink_KeepCache ==
    /\ nw.fn = "RouteMonitor"
    /\ nw.pc = "setup"
    /\ \E ok \in BOOLEAN :
        /\ nw' = IF ok
                 THEN [nw EXCEPT !.pc = "process", !.backoff = Connected(@),
                                 !.connected = TRUE, !.msg = None, !.sends = 0]
                 ELSE [nw EXCEPT !.pc = "sleep", !.msg = None, !.sends = 0]
        /\ UNCHANGED pm_vars

\* setup_netlink, and what the loop does with its result up to
\* process_messages' first lines.
SetupNetlink ==
    /\ nw.fn = "RouteMonitor"
    /\ nw.pc = "setup"
    /\ \E ok \in BOOLEAN :
        /\ nw' = IF ok
                 THEN [nw EXCEPT !.pc = "process", !.backoff = Connected(@),
                                 !.addr_cache = [i \in IfIndexes |-> {}],
                                 !.connected = TRUE, !.msg = None, !.sends = 0]
                 ELSE [nw EXCEPT !.pc = "sleep", !.msg = None, !.sends = 0]
        /\ UNCHANGED pm_vars

\* sender.send(NetworkMessage::Change): the monitor after it, which stops
\* when the receiver is gone.
SendChange(st) ==
    IF st.receiver THEN [st EXCEPT !.sends = @ + 1]
    ELSE [st EXCEPT !.sends = @ + 1, !.pc = "stopped"]

\* process_messages: one round of the loop, on the message the stream gave.
ProcessMessage ==
    /\ nw.fn = "RouteMonitor"
    /\ nw.pc = "process"
    /\ \E m \in NetlinkMessages :
        /\ LET got == [nw EXCEPT !.msg = Some(m), !.sends = 0]
           IN  nw' =
                 CASE m.payload = "Done" -> [got EXCEPT !.pc = "sleep"]
                   [] m.payload = "NewAddress" ->
                        IF IsSome(m.address)
                        THEN IF Unwrap(m.address) \in nw.addr_cache[m.index]
                             THEN got
                             ELSE SendChange([got EXCEPT !.addr_cache[m.index] =
                                                  @ \cup {Unwrap(m.address)}])
                        ELSE got
                   [] m.payload = "DelAddress" ->
                        SendChange(IF IsSome(m.address)
                                   THEN [got EXCEPT !.addr_cache[m.index] =
                                                        @ \ {Unwrap(m.address)}]
                                   ELSE got)
                   [] m.payload \in {"NewRoute", "DelRoute"} ->
                        IF Suppressed(m) THEN got ELSE SendChange(got)
                   [] m.payload \in {"NewRule", "DelRule"} -> SendChange(got)
                   [] OTHER -> got
        /\ UNCHANGED pm_vars

\* The stream of the connection ends.
StreamEnded ==
    /\ nw.fn = "RouteMonitor"
    /\ nw.pc = "process"
    /\ nw' = [nw EXCEPT !.pc = "sleep", !.msg = None, !.sends = 0]
    /\ UNCHANGED pm_vars

\* time::sleep(backoff) and the doubling that follows it.
Sleep ==
    /\ nw.fn = "RouteMonitor"
    /\ nw.pc = "sleep"
    /\ nw' = [nw EXCEPT !.pc = "setup", !.wait = nw.backoff,
                        !.backoff = IF @ * 2 < MAX_BACKOFF THEN @ * 2 ELSE MAX_BACKOFF,
                        !.connected = FALSE, !.msg = None, !.sends = 0]
    /\ UNCHANGED pm_vars

\* The receiver of the monitor's messages is dropped.
ReceiverDropped ==
    /\ nw.fn = "RouteMonitor"
    /\ nw.receiver
    /\ nw.pc # "stopped"
    /\ nw' = [nw EXCEPT !.receiver = FALSE]
    /\ UNCHANGED pm_vars

NextMonitor ==
    \/ RouteMonitorNew
    \/ SetupNetlink
    \/ ProcessMessage
    \/ StreamEnded
    \/ Sleep
    \/ ReceiverDropped

SpecMonitor == InitNetwatch /\ [][NextMonitor]_vars

\* ------------------------------------------------------------ interfaces
\* The prefixes of an interface, with what is_link_local, is_loopback and
\* is_multicast say of their addresses.
Prefixes ==
    {[net |-> "10.0.0.2/24", kind |-> "global"],
     [net |-> "192.168.0.2/24", kind |-> "global"],
     [net |-> "fe80::1/64", kind |-> "link_local"],
     [net |-> "127.0.0.1/8", kind |-> "loopback"]}

\* Interface: what its equality compares (index, name, flags and MAC, told
\* as one id) and addrs(), its prefixes in order.
Interfaces ==
    [id : {"up", "down"},
     addrs : {pl \in UNION {[1..n -> Prefixes] : n \in 0..2} :
                 \A i \in 1..(Len(pl) - 1) : pl[i].net # pl[i + 1].net}]

IfNames == {"eth0", "wlan0"}

\* State: the interfaces by name and the four summary fields.
States ==
    {st \in [interfaces : UNION {[ns -> Interfaces] : ns \in SUBSET IfNames},
             have_v4 : BOOLEAN, have_v6 : BOOLEAN, is_expensive : BOOLEAN,
             default_route_interface : {None, Some("eth0")}] :
        \A n \in DOMAIN st.interfaces \ {"eth0"} :
            st.interfaces[n] = [id |-> "up", addrs |-> <<>>]}

\* The states is_major_change is given as old: none or one interface.
OldStates ==
    {st \in States : /\ st.have_v4 = st.have_v6
                     /\ st.have_v6 = st.is_expensive
                     /\ st.is_expensive = IsSome(st.default_route_interface)}

\* netmon/linux.rs, is_interesting_interface
is_interesting_interface(name) == TRUE

\* prefixes_major_equal, is_interesting
is_interesting(p) == p.kind \notin {"link_local", "loopback", "multicast"}

\* Iterator::filter
Filter(pl) == SelectSeq(pl, is_interesting)

\* prefixes_major_equal: zip stops at the end of the shorter list.
prefixes_major_equal(a, b) ==
    LET fa == Filter(a)
        fb == Filter(b)
        n == IF Len(fa) < Len(fb) THEN Len(fa) ELSE Len(fb)
    IN  \A i \in 1..n : fa[i] = fb[i]

\* State::is_major_change (not wasm_browser): self against old.
is_major_change(self, old) ==
    IF \/ self.have_v6 # old.have_v6
       \/ self.have_v4 # old.have_v4
       \/ self.is_expensive # old.is_expensive
       \/ self.default_route_interface # old.default_route_interface
    THEN TRUE
    ELSE \E iname \in DOMAIN old.interfaces :
            /\ is_interesting_interface(iname)
            /\ \/ iname \notin DOMAIN self.interfaces
               \/ LET i == old.interfaces[iname]
                      i2 == self.interfaces[iname]
                  IN  i.id # i2.id \/ ~prefixes_major_equal(i.addrs, i2.addrs)

\* new.is_major_change(old) is called.
IsMajorChange ==
    /\ nw.fn = "none"
    /\ \E new \in States, old \in OldStates :
        /\ nw' = [fn |-> "is_major_change", new |-> new, old |-> old,
                  result |-> is_major_change(new, old)]
        /\ UNCHANGED pm_vars

NextInterfaces == IsMajorChange

SpecInterfaces == InitNetwatch /\ [][NextInterfaces]_vars

\* ------------------------------------------------------------------ claims

Running(f) == {i \in DOMAIN f : f[i] = "running"}

Selectable ==
    SelectProtocol(output(full_probe, now), config,
                   RecentlyProbed(full_probe, now)) /= "none"

Held == IsSome(current_mapping.mapping)

C2_CancelOnPortChange ==
    [][/\ (local_port' /= local_port /\ IsSome(mapping_task)) =>
            LET old == Unwrap(mapping_task)
            IN  /\ fate'[old.id] = "aborted"
                /\ last'.cancelled = old.id
                /\ IF IsSome(local_port') /\ last'.gw = "ok" /\ Selectable
                   THEN /\ IsSome(mapping_task')
                        /\ Unwrap(mapping_task').id /= old.id
                        /\ Unwrap(mapping_task').local_port = Unwrap(local_port')
                        /\ fate'[Unwrap(mapping_task').id] = "running"
                   ELSE mapping_task' = None
       /\ IsSome(current_mapping'.mapping) =>
            fate'[Unwrap(current_mapping'.mapping).id] = "joined"
      ]_vars

\* UpdateLocalPort(B) arrived while the task for A was in flight: that task
\* is aborted and a task for B runs.
C2_Witness ==
    /\ last.ev = "UpdateLocalPort"
    /\ last.port = Some("A")
    /\ local_port = Some("B")
    /\ last.cancelled /= 0
    /\ fate[last.cancelled] = "aborted"
    /\ IsSome(mapping_task)
    /\ Unwrap(mapping_task).local_port = "B"

C4_Selection ==
    (last.ev = "ProcureMapping" /\ last.gw = "ok") =>
        LET out == output(full_probe, now)
            recently_probed == now < full_probe.last_probe + UNAVAILABILITY_TRUST_DURATION
            used == IF IsSome(mapping_task) THEN Unwrap(mapping_task).kind ELSE "none"
            r1 == out.pcp
            r2 == ~r1 /\ out.nat_pmp
            r3 == ~r1 /\ ~out.nat_pmp /\ (out.upnp \/ config.enable_upnp)
            r4 == ~r1 /\ ~out.nat_pmp /\ ~(out.upnp \/ config.enable_upnp)
                      /\ ~recently_probed /\ config.enable_pcp
            r5 == ~r1 /\ ~out.nat_pmp /\ ~(out.upnp \/ config.enable_upnp)
                      /\ ~(~recently_probed /\ config.enable_pcp)
                      /\ ~recently_probed /\ config.enable_nat_pmp
        IN  /\ r1 => used = "pcp"
            /\ r2 => used = "nat_pmp"
            /\ r3 => used = "upnp"
            /\ r4 => used = "pcp"
            /\ r5 => used = "nat_pmp"
            /\ ~(r1 \/ r2 \/ r3 \/ r4 \/ r5) => used = "none"
            /\ all_available(out) => used = "pcp"
            /\ (out = ProbeOutput(FALSE, FALSE, FALSE) /\ config.enable_upnp
                    /\ ~config.enable_pcp /\ ~config.enable_nat_pmp) => used = "upnp"

\* With nothing available, UPnP disabled, PCP enabled and no recent probe,
\* the attempt uses PCP.
C4_Witness ==
    /\ last.ev = "ProcureMapping"
    /\ last.gw = "ok"
    /\ output(full_probe, now) = ProbeOutput(FALSE, FALSE, FALSE)
    /\ ~config.enable_upnp
    /\ config.enable_pcp
    /\ ~RecentlyProbed(full_probe, now)
    /\ IsSome(mapping_task)
    /\ Unwrap(mapping_task).kind = "pcp"

\* What a step that handles a Probe request does: the two cases that do not
\* look for the gateway, and the third, which starts a probe task when
\* `spawns` and otherwise answers with the gateway error.
ProbeCases(spawns) ==
    last'.ev = "Probe" =>
        IF IsSome(probing_task)
        THEN /\ probing_task' = Some([Unwrap(probing_task) EXCEPT
                                         !.receivers = Append(@, nreq')])
             /\ live_probes' = live_probes
             /\ last'.sent = <<>>
        ELSE IF all_available(output(full_probe, now))
        THEN /\ last'.sent = << <<nreq', Ok(output(full_probe, now))>> >>
             /\ probing_task' = None
             /\ live_probes' = live_probes
        ELSE IF spawns
        THEN /\ IsSome(probing_task')
             /\ Unwrap(probing_task').receivers = <<nreq'>>
             /\ live_probes' = live_probes + 1
             /\ last'.sent = <<>>
        ELSE /\ last'.gw \in {"NoGateway", "Ipv6Gateway"}
             /\ last'.sent = << <<nreq', Err(last'.gw)>> >>
             /\ probing_task' = None
             /\ live_probes' = live_probes

\* C5, as claimed: a Probe request joins the probe task in flight; else it
\* is answered at once when all three protocols are available; else it
\* starts one probe task with the caller as its only waiter.
C5_ProbeRequest == [][nreq' /= nreq => ProbeCases(TRUE)]_vars

\* C5, amended: as claimed, except that the last case starts the probe task
\* only when an IPv4 gateway is found, and otherwise answers the caller with
\* the error (NoGateway or Ipv6Gateway) and starts no task.
C5_ProbeRequestGateway == [][nreq' /= nreq => ProbeCases(last'.gw = "ok")]_vars

\* The first request found no gateway and was answered with the error; the
\* second one started a probe task and waits on it alone.
C5_Witness ==
    /\ last.ev = "Probe"
    /\ answered = <<1, 0>>
    /\ IsSome(probing_task)
    /\ Unwrap(probing_task).receivers = <<2>>
    /\ live_probes = 1

\* C6: when the probe task completes, every waiter enqueued on it is sent
\* the same result (the ProbeOutput of the merged freshness record, or the
\* join error), in the order of enqueueing, and the slot is cleared.
C6_FanOut ==
    [][(IsSome(probing_task) /\ probing_task' = None /\ running') =>
        LET receivers == Unwrap(probing_task).receivers
            result == IF last'.ev = "ProbeReady"
                      THEN Ok(output(full_probe', now)) ELSE Err("Join")
        IN  /\ last'.ev \in {"ProbeReady", "ProbeJoinError"}
            /\ Len(last'.sent) = Len(receivers)
            /\ \A i \in 1..Len(receivers) : last'.sent[i] = <<receivers[i], result>>
            /\ \A r \in DOMAIN answered :
                   answered'[r] = answered[r]
                       + (IF \E i \in 1..Len(receivers) : receivers[i] = r THEN 1 ELSE 0)
            /\ live_probes' = 0
      ]_vars

\* A probe task with two waiters completed: both were sent the same output.
C6_Witness ==
    /\ last.ev = "ProbeReady"
    /\ Len(last.sent) = 2
    /\ last.sent[1][1] = 1
    /\ last.sent[2][1] = 2
    /\ last.sent[1][2] = last.sent[2][2]
    /\ last.sent[1][2].out.pcp
    /\ answered = <<1, 1>>

\* C7, as claimed: UpdateLocalPort with the current local port changes
\* nothing.
C7_SamePortNoop ==
    [][(last'.ev = "UpdateLocalPort" /\ local_port' = local_port) =>
        UNCHANGED <<mapping_task, fate, current_mapping, released>>
      ]_vars

\* C7, amended: UpdateLocalPort with the current local port never changes
\* the local port or the current mapping and releases nothing; it is a no-op
\* when a mapping is held or the port is unset; with a port set and no
\* mapping held it makes a fresh mapping attempt, which, when a gateway is
\* found and a protocol is selectable, starts a task for that port with no
\* preferred address, aborting the task in flight if there is one.
C7_SamePortRetries ==
    [][(last'.ev = "UpdateLocalPort" /\ local_port' = local_port) =>
        /\ UNCHANGED <<current_mapping, released>>
        /\ IF ~Held /\ IsSome(local_port) /\ last'.gw = "ok" /\ Selectable
           THEN /\ IsSome(mapping_task')
                /\ fate[Unwrap(mapping_task').id] = "unspawned"
                /\ fate'[Unwrap(mapping_task').id] = "running"
                /\ Unwrap(mapping_task').local_port = Unwrap(local_port)
                /\ Unwrap(mapping_task').external_addr = None
                /\ IsSome(mapping_task) => fate'[Unwrap(mapping_task).id] = "aborted"
           ELSE UNCHANGED <<mapping_task, fate>>
      ]_vars

\* UpdateLocalPort with the unchanged port A replaced the task in flight.
C7_Witness ==
    /\ last.ev = "UpdateLocalPort"
    /\ last.port = Some("A")
    /\ local_port = Some("A")
    /\ last.cancelled /= 0
    /\ IsSome(mapping_task)
    /\ Unwrap(mapping_task).id /= last.cancelled

\* C8: ProcureMapping changes nothing when a mapping is held or when no
\* local port is set; with a port set and no mapping held it makes a mapping
\* attempt with no preferred external address (a task when a gateway is
\* found and a protocol is selectable); it never changes the local port or
\* the current mapping and releases nothing.
C8_ProcureMapping ==
    [][last'.ev = "ProcureMapping" =>
        /\ UNCHANGED <<local_port, current_mapping, released>>
        /\ (Held \/ ~IsSome(local_port)) =>
               /\ UNCHANGED <<mapping_task, fate>>
               /\ last'.gw = "unused"
        /\ (~Held /\ IsSome(local_port)) =>
               IF last'.gw = "ok" /\ Selectable
               THEN /\ IsSome(mapping_task')
                    /\ fate[Unwrap(mapping_task').id] = "unspawned"
                    /\ Unwrap(mapping_task').local_port = Unwrap(local_port)
                    /\ Unwrap(mapping_task').external_addr = None
               ELSE UNCHANGED <<mapping_task, fate>>
      ]_vars

\* ProcureMapping was handled while a mapping was held: no task runs.
C8_Witness ==
    /\ last.ev = "ProcureMapping"
    /\ Held
    /\ mapping_task = None
    /\ last.gw = "unused"

Aborts == \E i \in DOMAIN fate : fate[i] = "running" /\ fate'[i] = "aborted"

C10_ProbeRunsToCompletion ==
    [][(IsSome(probing_task) /\ running') =>
        LET task == Unwrap(probing_task)
        IN  \/ /\ IsSome(probing_task')
               /\ Unwrap(probing_task').probed = task.probed
               /\ Unwrap(probing_task').start =
                      IF last'.ev = "Tick" THEN Elapse(task.start) ELSE task.start
               /\ SubSeq(Unwrap(probing_task').receivers, 1, Len(task.receivers))
                      = task.receivers
               /\ live_probes' = live_probes
               /\ last'.ev /= "Tick" => full_probe' = full_probe
            \/ /\ last'.ev = "ProbeReady"
               /\ probing_task' = None
               /\ full_probe'.last_probe = task.start
               /\ full_probe'.last_pcp \in
                      {full_probe.last_pcp} \cup
                      (IF task.probed.pcp THEN {Some(now)} ELSE {})
               /\ full_probe'.last_nat_pmp \in
                      {full_probe.last_nat_pmp} \cup
                      (IF task.probed.nat_pmp THEN {Some(now)} ELSE {})
               /\ full_probe'.last_upnp_gateway_addr \in
                      {full_probe.last_upnp_gateway_addr} \cup
                      (IF task.probed.upnp THEN {Some(now)} ELSE {})
            \/ /\ last'.ev = "ProbeJoinError"
               /\ probing_task' = None
               /\ full_probe' = full_probe
      ]_vars

\* A probe task that did not probe PCP, seen before, completed while a
\* mapping task started meanwhile was in flight: PCP is still recorded.
C10_Witness ==
    /\ last.ev = "ProbeReady"
    /\ IsSome(full_probe.last_pcp)
    /\ IsSome(full_probe.last_nat_pmp)
    /\ full_probe.last_pcp /= full_probe.last_nat_pmp
    /\ IsSome(mapping_task)

\* What C11 says of a protocol last seen at `last_seen`, and reported as
\* `available` now.
FreshFor(last_seen, available) ==
    IF IsSome(last_seen)
    THEN LET t == Unwrap(last_seen)
         IN  /\ (t <= now /\ now < t + 10 * 60) => available
             /\ now >= t + 10 * 60 => ~available
             /\ now = t + 9 * 60 => available
             /\ now = t + 11 * 60 => ~available
    ELSE ~available

\* C11: a protocol seen at t, and not seen since, is reported available at
\* every instant of [t, t + 10 min) and unavailable from t + 10 min on; a
\* protocol never seen is unavailable.
C11_Freshness ==
    LET out == output(full_probe, now)
    IN  /\ FreshFor(full_probe.last_pcp, out.pcp)
        /\ FreshFor(full_probe.last_nat_pmp, out.nat_pmp)
        /\ FreshFor(full_probe.last_upnp_gateway_addr, out.upnp)

\* Ten minutes to the second after PCP was seen: it is no longer available.
C11_Witness ==
    /\ last.ev = "Clock"
    /\ full_probe.last_pcp = Some(now - 10 * 60)
    /\ ~output(full_probe, now).pcp
    /\ full_probe.last_nat_pmp = None

C14_WatchReflectsMapping ==
    /\ current_mapping.address =
           IF Held THEN Some(Unwrap(current_mapping.mapping).external) ELSE None
    /\ last.ev = "Init" => current_mapping.address = None
    /\ (last.ev = "UpdateLocalPort" /\ last.port /= local_port) =>
           current_mapping.address = None

\* Deactivated with a mapping held: the mapping was released and the watched
\* value is None again.
C14_Witness ==
    /\ last.ev = "UpdateLocalPort"
    /\ IsSome(last.port)
    /\ local_port = None
    /\ \E i \in DOMAIN released : released[i] = 1
    /\ current_mapping.address = None

\* The response a client met at its i-th receive, when one reached it in
\* time and decoded.
Met(i, window) ==
    /\ Len(client.rcvd) >= i
    /\ client.rcvd[i].after < window
    /\ client.rcvd[i].got.kind \notin {"io_error", "undecodable"}

\* C15: for every decoded response to its map request, pcp::Mapping::new
\* returns InvalidAnnounce for an Announce; else NonceMissmatch when the
\* nonce echoed is not the nonce sent; else ProtocolMissmatch when the
\* protocol is not UDP; else PortMissmatch when the local port echoed is not
\* the port sent; else ZeroExternalPort when the external port is 0; else
\* NotIpv4 when the external address is not an IPv4-mapped one; else a
\* mapping with the response's external IPv4 address, external port and
\* lifetime and the nonce sent, whose half lifetime is half the lifetime
\* (1800 s of 3600 s).
C15_PcpValidation ==
    (client.proto = "pcp" /\ client.op = "new" /\ Met(1, 500)) =>
        LET r == client.rcvd[1].got
            res == Unwrap(client.result)
        IN  IF r.kind = "Announce" THEN res = Failed("InvalidAnnounce")
            ELSE IF r.nonce /= client.nonce THEN res = Failed("NonceMissmatch")
            ELSE IF r.protocol /= "Udp" THEN res = Failed("ProtocolMissmatch")
            ELSE IF r.local_port /= client.local_port THEN res = Failed("PortMissmatch")
            ELSE IF r.external_port = 0 THEN res = Failed("ZeroExternalPort")
            ELSE IF r.external_address[1] /= "::ffff" THEN res = Failed("NotIpv4")
            ELSE /\ res.ok
                 /\ res.mapping.external_address = r.external_address[2]
                 /\ res.mapping.external_port = r.external_port
                 /\ res.mapping.lifetime_seconds = r.lifetime_seconds
                 /\ res.mapping.nonce = client.nonce
                 /\ half_lifetime(res.mapping) = r.lifetime_seconds \div 2
                 /\ r.lifetime_seconds = 3600 => half_lifetime(res.mapping) = 1800

\* A PCP mapping granted for 3600 s: its half lifetime is 1800 s.
C15_Witness ==
    /\ client.proto = "pcp"
    /\ client.op = "new"
    /\ client.pc = "done"
    /\ Unwrap(client.result).ok
    /\ Unwrap(client.result).mapping.lifetime_seconds = 3600
    /\ half_lifetime(Unwrap(client.result).mapping) = 1800

\* The map response of a client, when its first receive met one.
MapResponse ==
    /\ client.proto \in {"pcp", "nat_pmp"}
    /\ client.op = "new"
    /\ Met(1, 500)
    /\ client.rcvd[1].got.kind \in {"MapData", "PortMap"}

\* C16, as claimed: for NAT-PMP and for PCP, every map response whose
\* external port is 0 makes Mapping::new fail with ZeroExternalPort.
C16_ZeroPortAlways ==
    (MapResponse /\ client.rcvd[1].got.external_port = 0) =>
        Unwrap(client.result) = Failed("ZeroExternalPort")

\* C16, amended: for NAT-PMP and for PCP, a map response whose external port
\* is 0 never yields a mapping; Mapping::new fails with ZeroExternalPort when
\* the response passes the checks made before that of the port (PCP: nonce,
\* protocol, local port; NAT-PMP: protocol, local port), and with the error
\* of the first of these checks it fails otherwise.
C16_ZeroPortAfterChecks ==
    (MapResponse /\ client.rcvd[1].got.external_port = 0) =>
        LET r == client.rcvd[1].got
            res == Unwrap(client.result)
        IN  /\ client.pc = "done"
            /\ ~res.ok
            /\ Len(client.sent) = 1
            /\ IF client.proto = "pcp"
               THEN res.err = IF r.nonce /= client.nonce THEN "NonceMissmatch"
                              ELSE IF r.protocol /= "Udp" THEN "ProtocolMissmatch"
                              ELSE IF r.local_port /= client.local_port
                              THEN "PortMissmatch"
                              ELSE "ZeroExternalPort"
               ELSE res.err = IF r.proto /= "Udp" \/ r.private_port /= client.local_port
                              THEN "UnexpectedServerResponse"
                              ELSE "ZeroExternalPort"

\* A NAT-PMP gateway answered the map request with external port 0.
C16_Witness ==
    /\ client.proto = "nat_pmp"
    /\ client.op = "new"
    /\ client.pc = "done"
    /\ Len(client.rcvd) = 1
    /\ client.rcvd[1].got.kind = "PortMap"
    /\ client.rcvd[1].got.external_port = 0
    /\ Unwrap(client.result) = Failed("ZeroExternalPort")

\* The first response is the one nat_pmp::Mapping::new goes on with.
GoodPortMap ==
    /\ Met(1, 500)
    /\ client.rcvd[1].got.kind = "PortMap"
    /\ client.rcvd[1].got.proto = "Udp"
    /\ client.rcvd[1].got.private_port = client.local_port

\* C17: nat_pmp::Mapping::new sends the map request (opcode 1, lifetime
\* 7200 s) first and the external address request (opcode 0) only after a
\* UDP PortMap response for the port asked with an external port other than
\* 0; a first response of another kind or protocol, or for another port,
\* fails with UnexpectedServerResponse, and so does a second response that
\* is not PublicAddress; a mapping is returned only when both exchanges
\* succeed, and has the external port, lifetime and public address the
\* gateway gave.
C17_NatPmpExchanges ==
    (client.proto = "nat_pmp" /\ client.op = "new") =>
        /\ Len(client.sent) <= 2
        /\ Len(client.sent) >= 1 =>
               /\ client.sent[1].kind = "Mapping"
               /\ NatPmpOpcode(client.sent[1]) = 1
               /\ client.sent[1].local_port = client.local_port
               /\ client.sent[1].lifetime_seconds = 7200
        /\ Len(client.sent) = 2 =>
               /\ client.sent[2].kind = "ExternalAddress"
               /\ NatPmpOpcode(client.sent[2]) = 0
               /\ GoodPortMap
               /\ client.rcvd[1].got.external_port /= 0
        /\ (Met(1, 500) /\ ~GoodPortMap) =>
               /\ client.pc = "done"
               /\ Unwrap(client.result) = Failed("UnexpectedServerResponse")
               /\ Len(client.sent) = 1
        /\ (Met(2, 500) /\ client.rcvd[2].got.kind /= "PublicAddress") =>
               Unwrap(client.result) = Failed("UnexpectedServerResponse")
        /\ (client.pc = "done" /\ Unwrap(client.result).ok) =>
               /\ GoodPortMap
               /\ Met(2, 500)
               /\ client.rcvd[2].got.kind = "PublicAddress"
               /\ Unwrap(client.result).mapping.external_port
                      = client.rcvd[1].got.external_port
               /\ Unwrap(client.result).mapping.lifetime_seconds
                      = client.rcvd[1].got.lifetime_seconds
               /\ Unwrap(client.result).mapping.external_addr
                      = client.rcvd[2].got.public_ip

\* Both exchanges succeeded: the mapping has the address of the second
\* response.
C17_Witness ==
    /\ client.proto = "nat_pmp"
    /\ client.op = "new"
    /\ client.pc = "done"
    /\ Len(client.sent) = 2
    /\ Unwrap(client.result).ok
    /\ Unwrap(client.result).mapping.external_addr = "ip2"

\* The receive window of the i-th wait of the client.
Window == IF client.proto = "upnp" THEN 1000 ELSE 500

C19_Release ==
    (client.proto \in {"nat_pmp", "pcp"} /\ client.op = "release") =>
        /\ client.pc = "done"
        /\ client.rcvd = <<>>
        /\ Len(client.sent) <= 1
        /\ Len(client.sent) = 1 <=> Unwrap(client.result).ok
        /\ Len(client.sent) = 1 =>
               /\ client.sent[1].kind = IF client.proto = "pcp" THEN "Map" ELSE "Mapping"
               /\ client.sent[1].local_port = client.local_port
               /\ client.sent[1].lifetime_seconds = 0
               /\ client.proto = "nat_pmp" => client.sent[1].external_port = 0
               /\ client.proto = "pcp" => client.sent[1].nonce = client.nonce

\* A PCP mapping made with nonce n2 was released.
C19_Witness ==
    /\ client.proto = "pcp"
    /\ client.op = "release"
    /\ Len(client.sent) = 1
    /\ client.sent[1].nonce = "n2"
    /\ Unwrap(client.result).ok

\* The AddPortMapping and AddAnyPortMapping requests the UPnP client made.
AddRequests ==
    {i \in 1..Len(client.sent) :
        client.sent[i].kind \in {"AddPortMapping", "AddAnyPortMapping"}}

\* C20, as claimed: every AddPortMapping and AddAnyPortMapping request asks
\* for a lease of 2 hours.
C20_LeaseTwoHours ==
    (client.proto = "upnp" /\ client.op = "new") =>
        \A i \in AddRequests : client.sent[i].lease_duration = 2 * 60 * 60

\* C20, amended: every AddPortMapping and AddAnyPortMapping request asks for
\* a lease of 0 seconds, which is a lease without end; the mapping made is
\* given a half lifetime of one hour all the same.
C20_LeaseWithoutEnd ==
    (client.proto = "upnp" /\ client.op = "new") =>
        /\ \A i \in AddRequests : client.sent[i].lease_duration = 0
        /\ Unwrap(client.result).ok =>
               /\ AddRequests /= {}
               /\ half_lifetime(Unwrap(client.result).mapping) = 60 * 60

\* AddPortMapping for the preferred port failed and AddAnyPortMapping made
\* the mapping.
C20_Witness ==
    /\ client.proto = "upnp"
    /\ client.op = "new"
    /\ Cardinality(AddRequests) = 2
    /\ Unwrap(client.result).ok

\* The place in `sent` of the client's request of that kind, 0 when it made
\* none.
Asked(kind) ==
    IF \E i \in 1..Len(client.sent) : client.sent[i].kind = kind
    THEN CHOOSE i \in 1..Len(client.sent) : client.sent[i].kind = kind
    ELSE 0

\* C21: with a preferred external port, upnp::Mapping::new calls
\* AddPortMapping for that port first and, when that succeeds, returns a
\* mapping with that very port and calls nothing more; it calls
\* AddAnyPortMapping only when AddPortMapping failed, and at once when no
\* port is preferred; a port 0 from AddAnyPortMapping fails with
\* ZeroExternalPort.
C21_PreferredPortFirst ==
    (client.proto = "upnp" /\ client.op = "new"
        /\ Asked("GetExternalIPAddress") /= 0
        /\ client.rcvd[Asked("GetExternalIPAddress")].got.kind = "V4") =>
        LET add == Asked("AddPortMapping")
            any == Asked("AddAnyPortMapping")
            res == Unwrap(client.result)
        IN  /\ IsSome(client.preferred) =>
                   /\ add = Asked("GetExternalIPAddress") + 1
                   /\ client.sent[add].external_port = Unwrap(client.preferred)
                   /\ client.rcvd[add].got.ok =>
                          /\ any = 0
                          /\ res.ok
                          /\ res.mapping.external_port = Unwrap(client.preferred)
                   /\ ~client.rcvd[add].got.ok => any = add + 1
            /\ ~IsSome(client.preferred) =>
                   /\ add = 0
                   /\ any = Asked("GetExternalIPAddress") + 1
            /\ any /= 0 =>
                   /\ Len(client.sent) = any
                   /\ (client.rcvd[any].got.ok /\ client.rcvd[any].got.port = 0) =>
                          res = Failed("ZeroExternalPort")
                   /\ (client.rcvd[any].got.ok /\ client.rcvd[any].got.port /= 0) =>
                          /\ res.ok
                          /\ res.mapping.external_port = client.rcvd[any].got.port

\* AddPortMapping for the preferred port succeeded: the mapping has that
\* port and AddAnyPortMapping was not called.
C21_Witness ==
    /\ client.proto = "upnp"
    /\ client.op = "new"
    /\ client.preferred = Some(6000)
    /\ Asked("AddPortMapping") /= 0
    /\ Asked("AddAnyPortMapping") = 0
    /\ Unwrap(client.result).ok
    /\ Unwrap(client.result).mapping.external_port = 6000

\* C22: when GetExternalIPAddress gives an IPv6 address, upnp::Mapping::new
\* fails with NotIpv4 and has made no AddPortMapping and no
\* AddAnyPortMapping request.
C22_NotIpv4BeforeAdd ==
    (client.proto = "upnp" /\ client.op = "new"
        /\ Asked("GetExternalIPAddress") /= 0
        /\ client.rcvd[Asked("GetExternalIPAddress")].got.kind = "V6") =>
        /\ Unwrap(client.result) = Failed("NotIpv4")
        /\ AddRequests = {}
        /\ Len(client.sent) = Asked("GetExternalIPAddress")

\* The gateway found by the search gave an IPv6 external address to a client
\* that preferred a port.
C22_Witness ==
    /\ client.proto = "upnp"
    /\ client.op = "new"
    /\ IsSome(client.preferred)
    /\ Len(client.sent) = 2
    /\ client.rcvd[2].got.kind = "V6"
    /\ Unwrap(client.result) = Failed("NotIpv4")

\* The calls of that kind fetch_rib has made.
Calls(kind) == {i \in 1..Len(nw.calls) : nw.calls[i].call = kind}

\* C23: fetch_rib makes at most 3 rounds of a sysctl for the size and a
\* sysctl to fill; a fill that fails with ENOMEM starts another round while
\* fewer than 3 have run, the ENOMEM of the third is returned as an Io
\* error, every other failure of a sysctl is returned at once, and a size of
\* 0 returns an empty buffer.
C23_FetchRibRounds ==
    nw.fn = "fetch_rib" =>
        LET k == Len(nw.calls)
            sizes == Cardinality(Calls("size"))
            fills == Cardinality(Calls("fill"))
        IN  /\ nw.round = sizes
            /\ sizes <= 3
            /\ fills <= sizes
            /\ \A i \in 1..k : (i % 2 = 1) <=> (nw.calls[i].call = "size")
            /\ k >= 1 =>
                   LET c == nw.calls[k]
                   IN  IF ~c.got.ok /\ c.call = "fill" /\ c.got.errno = "ENOMEM"
                              /\ sizes < 3
                       THEN nw.pc = "size"
                       ELSE IF ~c.got.ok
                       THEN /\ nw.pc = "done"
                            /\ nw.result = Some(Failed(<<"Io", c.got.errno>>))
                       ELSE IF c.call = "size" /\ c.got.n = 0
                       THEN /\ nw.pc = "done"
                            /\ nw.result = Some(Done(0))
                       ELSE IF c.call = "size"
                       THEN nw.pc = "fill"
                       ELSE /\ nw.pc = "done"
                            /\ nw.result = Some(Done(c.got.n))
            /\ \A i \in 1..(k - 1) :
                   \/ nw.calls[i].call = "size" /\ nw.calls[i].got.ok
                          /\ nw.calls[i].got.n > 0
                   \/ nw.calls[i].call = "fill" /\ ~nw.calls[i].got.ok
                          /\ nw.calls[i].got.errno = "ENOMEM"

\* The fill failed with ENOMEM three times: the third ENOMEM is returned.
C23_Witness ==
    /\ nw.fn = "fetch_rib"
    /\ nw.pc = "done"
    /\ nw.round = 3
    /\ Len(nw.calls) = 6
    /\ nw.result = Some(Failed(<<"Io", "ENOMEM">>))

\* parse_rib is in its loop at a whole message of another version.
AtOtherVersion ==
    /\ nw.fn = "parse_rib"
    /\ nw.pc = "loop"
    /\ BLen(nw.b) > 4
    /\ nw.b[1].l # 0
    /\ BLen(nw.b) >= nw.b[1].l
    /\ nw.b[1].version # "rtm_version"

\* C24: parse_rib skips a message whose version byte is not rtm_version: the
\* message is consumed, counted as skipped, not returned and no error; and
\* parse_rib returns Ok only when the messages parsed and the messages
\* skipped add up to the messages met, MessageMismatch otherwise.
C24_OtherVersionSkipped ==
    /\ [][AtOtherVersion /\ nw' # nw =>
              /\ nw'.b = Tail(nw.b)
              /\ nw'.nskips = nw.nskips + 1
              /\ nw'.msgs = nw.msgs
              /\ nw'.pc = "loop"]_vars
    /\ [](nw.fn = "parse_rib" /\ nw.pc = "done" /\ IsSome(nw.result) =>
              LET r == Unwrap(nw.result)
              IN  /\ r.ok => nw.nmsgs = Len(nw.msgs) + nw.nskips
                  /\ (BLen(nw.b) <= 4 /\ nw.data # <<>>
                         /\ nw.nmsgs # Len(nw.msgs) + nw.nskips)
                        => r = Failed("MessageMismatch"))

\* The address of all zeroes of a family.
AllZero(a) ==
    \/ a.af = "Inet4" /\ a.ip = "0.0.0.0"
    \/ a.af = "Inet6" /\ a.ip = "::"

\* What makes a route message a default route.
DefaultRoute(darwin, rm) ==
    /\ "RTF_GATEWAY" \in rm.flags
    /\ darwin => "RTF_IFSCOPE" \notin rm.flags
    /\ Len(rm.addrs) >= 3
    /\ AllZero(rm.addrs[1])
    /\ AllZero(rm.addrs[3])
    /\ rm.addrs[1].af = rm.addrs[3].af

C26_AddrsIndexedByRtax ==
    nw.fn = "parse_addrs" /\ nw.result.ok =>
        \A i \in {RTAX_DST, RTAX_GATEWAY, RTAX_NETMASK} \cap nw.attrs :
            LET k == Cardinality({j \in nw.attrs : j <= i})
            IN  k <= Len(nw.data) =>
                    /\ Len(nw.result.mapping) > i
                    /\ nw.result.mapping[i + 1] = Decode(i, nw.data[k])

\* The address is link-local, fe80::/10, or multicast of the scope of the
\* interface or of the link, as ff01:: and ff02:: are.
Scoped(oc) ==
    \/ oc[1] = 254 /\ oc[2] \in 128..191
    \/ oc[1] = 255 /\ oc[2] % 16 \in {1, 2}

\* C27: parse_inet_addr on a whole AF_INET6 sockaddr: for a link-local
\* address or a multicast address of interface or link scope whose bytes 2-3,
\* read big-endian, are not zero, the zone is that value and the bytes 2-3 of
\* the address are zero; in every other case the address is as it came and
\* the zone is the scope id of the sockaddr.
C27_KameZone ==
    nw.fn = "parse_inet_addr" /\ nw.af = "AF_INET6" /\ nw.b.have >= 28 =>
        LET oc == nw.b.oc
            id == 256 * oc[3] + oc[4]
        IN  /\ nw.result.ok
            /\ nw.result.mapping.af = "Inet6"
            /\ IF Scoped(oc) /\ id # 0
               THEN /\ nw.result.mapping.zone = id
                    /\ nw.result.mapping.ip = <<oc[1], oc[2], 0, 0>>
               ELSE /\ nw.result.mapping.zone = nw.b.scope_id
                    /\ nw.result.mapping.ip = oc

\* A link-local address fe80:1:: with scope id 7 came back as fe80:: of
\* zone 1.
C27_Witness ==
    /\ nw.fn = "parse_inet_addr"
    /\ nw.af = "AF_INET6"
    /\ nw.b.have = 28
    /\ nw.b.oc = <<254, 128, 0, 1>>
    /\ nw.b.scope_id = 7
    /\ nw.result = Done([af |-> "Inet6", ip |-> <<254, 128, 0, 0>>, zone |-> 1])

\* C28: in the Linux monitor each DELADDR, NEWRULE, DELRULE, NEWROUTE and
\* DELROUTE message makes exactly one Change, but a NEWROUTE or DELROUTE
\* whose destination is multicast or link-local and whose table is 254 or
\* 255 makes none; NEWLINK, DELLINK and error payloads make none.
C28_ChangePerMessage ==
    nw.fn = "RouteMonitor" /\ IsSome(nw.msg) =>
        LET m == Unwrap(nw.msg)
            quiet == /\ m.payload \in {"NewRoute", "DelRoute"}
                     /\ IsSome(m.dst)
                     /\ Unwrap(m.dst).kind # "other"
                     /\ Unwrap(m.dst).multicast \/ Unwrap(m.dst).link_local
                     /\ m.table \in {Some(254), Some(255)}
        IN  /\ m.payload \in {"DelAddress", "NewRule", "DelRule"} => nw.sends = 1
            /\ m.payload \in {"NewRoute", "DelRoute"} =>
                   nw.sends = IF quiet THEN 0 ELSE 1
            /\ m.payload \in {"NewLink", "DelLink", "Error"} => nw.sends = 0

\* A route to a multicast destination in table 255 was read and no Change
\* sent, the monitor going on with the stream.
C28_Witness ==
    /\ nw.fn = "RouteMonitor"
    /\ nw.pc = "process"
    /\ IsSome(nw.msg)
    /\ Unwrap(nw.msg).payload = "NewRoute"
    /\ Unwrap(nw.msg).table = Some(255)
    /\ IsSome(Unwrap(nw.msg).dst)
    /\ Unwrap(Unwrap(nw.msg).dst).kind = "Inet6"
    /\ Unwrap(Unwrap(nw.msg).dst).multicast
    /\ nw.sends = 0

\* C29: each time the netlink socket ends or its setup fails the monitor
\* waits before it connects again: 1 s the first time, twice the wait before
\* at each further attempt in a row, 30 s at most, so that every wait is
\* between 1 s and 30 s. Attempts are in a row while none of them gave a
\* connection.
C29_Backoff ==
    [][nw.fn = "RouteMonitor" /\ nw.pc = "sleep" /\ nw'.pc = "setup" =>
          /\ nw'.wait >= 1
          /\ nw'.wait <= 30
          /\ nw'.wait = IF nw.wait = 0 \/ nw.connected THEN 1
                        ELSE IF 2 * nw.wait <= 30 THEN 2 * nw.wait
                        ELSE 30]_vars

\* The monitor waited 30 s after 16 s.
C29_Witness ==
    /\ nw.fn = "RouteMonitor"
    /\ nw.wait = 30
    /\ nw.backoff = 30
    /\ nw.pc = "sleep"

\* The prefixes of a list that are neither loopback nor link-local nor
\* multicast.
Major(pl) == SelectSeq(pl, LAMBDA q : q.kind = "global")

\* C30: new.is_major_change(old) is true exactly when have_v4, have_v6 or
\* default_route_interface differ between the two, or an interesting
\* interface is in new and not in old, or in old and not in new, or has
\* another list of prefixes once loopback, link-local and multicast prefixes
\* are left out.
C30_MajorChange ==
    nw.fn = "is_major_change" =>
        (nw.result <=>
            \/ nw.new.have_v4 # nw.old.have_v4
            \/ nw.new.have_v6 # nw.old.have_v6
            \/ nw.new.default_route_interface # nw.old.default_route_interface
            \/ \E n \in IfNames :
                   \/ n \in DOMAIN nw.new.interfaces /\ n \notin DOMAIN nw.old.interfaces
                   \/ n \in DOMAIN nw.old.interfaces /\ n \notin DOMAIN nw.new.interfaces
                   \/ /\ n \in DOMAIN nw.old.interfaces
                      /\ n \in DOMAIN nw.new.interfaces
                      /\ Major(nw.new.interfaces[n].addrs)
                             # Major(nw.old.interfaces[n].addrs))

\* C31: when no gateway is found or the gateway is IPv6, a Probe request that
\* would start a probe task is answered Err(NoGateway) or Err(Ipv6Gateway),
\* no probe task is started and the state of the supervisor stays as it
\* was; a mapping attempt is skipped and starts no mapping task.
C31_NoGateway ==
    [][/\ (last'.ev = "Probe" /\ nreq' # nreq
             /\ last'.gw \in {"NoGateway", "Ipv6Gateway"}) =>
               /\ last'.sent = << <<nreq', Err(last'.gw)>> >>
               /\ answered'[nreq'] = 1
               /\ probing_task = None
               /\ live_probes' = live_probes
               /\ UNCHANGED <<config, local_port, current_mapping, full_probe,
                              mapping_task, probing_task, fate, released>>
       /\ (last'.ev \in {"UpdateLocalPort", "ProcureMapping", "Renew", "Expired"}
             /\ last'.gw = "error") =>
               /\ \A i \in DOMAIN fate : fate'[i] = "running" => fate[i] = "running"
               /\ mapping_task' \in {None, mapping_task}
               /\ UNCHANGED <<probing_task, live_probes, full_probe>>]_vars

\* A Probe request was answered with Ipv6Gateway and no probe task runs.
C31_Witness ==
    /\ last.ev = "Probe"
    /\ last.gw = "Ipv6Gateway"
    /\ last.sent = << <<1, Err("Ipv6Gateway")>> >>
    /\ probing_task = None
    /\ live_probes = 0

\* C32: Client::probe puts Err(ChannelFull) into the receiver it returns when
\* the service channel holds SERVICE_CHANNEL_CAPACITY messages, and
\* Err(ChannelClosed) when the channel is closed; in both cases the channel
\* takes no message, so that the supervisor handles no request and spawns no
\* probe task for the call.  A request the channel accepts leaves the
\* receiver waiting.  The supervisor handles no more Probe requests than the
\* channel accepted.
C32_ProbeChannelErrors ==
    /\ [][last'.ev = "Client::probe" =>
             /\ (~chan.closed /\ chan.queued = SERVICE_CHANNEL_CAPACITY) =>
                    /\ client'.result_rx = Some(Err("ChannelFull"))
                    /\ chan' = chan
                    /\ client'.accepted = client.accepted
             /\ chan.closed =>
                    /\ client'.result_rx = Some(Err("ChannelClosed"))
                    /\ chan' = chan
                    /\ client'.accepted = client.accepted
             /\ (~chan.closed /\ chan.queued < SERVICE_CHANNEL_CAPACITY) =>
                    /\ client'.result_rx = None
                    /\ chan'.queued = chan.queued + 1
                    /\ client'.accepted = client.accepted + 1
             /\ UNCHANGED <<nreq, answered, probing_task, live_probes>>
         ]_vars
    /\ [](/\ nreq <= client.accepted
          /\ running => QueuedProbes <= chan.queued
          /\ chan.queued <= SERVICE_CHANNEL_CAPACITY)

\* probe() was called on the full channel while the supervisor had handled
\* one request: the receiver holds Err(ChannelFull).
C32_Witness ==
    /\ last.ev = "Client::probe"
    /\ chan.queued = SERVICE_CHANNEL_CAPACITY
    /\ client.result_rx = Some(Err("ChannelFull"))
    /\ nreq = 1

\* C33: when the mapping task in the slot ends with an error (of the protocol
\* or of the join), the slot is cleared, the current mapping, its timer and
\* the published address stay as they were, no mapping task is spawned,
\* nothing is released, and nothing is sent to any requester.
C33_MappingTaskError ==
    [][(IsSome(mapping_task) /\ last'.ev = "MappingFailed") =>
           /\ mapping_task' = None
           /\ current_mapping' = current_mapping
           /\ \A i \in DOMAIN fate : fate'[i] = "running" => fate[i] = "running"
           /\ fate'[Unwrap(mapping_task).id] = "joined"
           /\ released' = released
           /\ last'.sent = <<>>
           /\ answered' = answered
           /\ UNCHANGED <<probing_task, live_probes, full_probe, local_port>>
      ]_vars

\* A mapping task failed while a mapping was held: the mapping is still held
\* and published, and the slot is empty.
C33_Witness ==
    /\ last.ev = "MappingFailed"
    /\ Held
    /\ current_mapping.address = Some(Unwrap(current_mapping.mapping).external)
    /\ mapping_task = None

\* The protocol get_mapping would select now.
Selected ==
    SelectProtocol(output(full_probe, now), config, RecentlyProbed(full_probe, now))

\* C34: at each Renew or Expired event of the current mapping get_mapping is
\* called with the event's external address: with a local port set, a
\* gateway found and a protocol to select, a mapping task is spawned for the
\* current local port with that address as its preferred external address,
\* and no other task is spawned; the current mapping stays held and
\* published, and nothing is released.  With the local port unset
\* get_mapping leaves the slot and the tasks as they are.
C34_EventDrivenAttempt ==
    /\ [][(last'.ev \in {"Renew", "Expired"} /\ current_mapping' # current_mapping) =>
             /\ IsSome(external(current_mapping))
             /\ current_mapping'.mapping = current_mapping.mapping
             /\ current_mapping'.address = current_mapping.address
             /\ released' = released
             /\ local_port' = local_port
             /\ (IsSome(local_port) /\ last'.gw = "ok" /\ Selectable) =>
                    /\ IsSome(mapping_task')
                    /\ mapping_task' # mapping_task
             /\ mapping_task' # mapping_task =>
                    /\ IsSome(local_port)
                    /\ IsSome(mapping_task')
                    /\ Unwrap(mapping_task').local_port = Unwrap(local_port)
                    /\ Unwrap(mapping_task').external_addr = external(current_mapping)
                    /\ Unwrap(mapping_task').kind = Selected
                    /\ fate[Unwrap(mapping_task').id] = "unspawned"
                    /\ fate'[Unwrap(mapping_task').id] = "running"
             /\ \A i \in DOMAIN fate :
                    (fate'[i] = "running" /\ fate[i] # "running") =>
                        mapping_task' = Some([id |-> i, kind |-> Selected,
                                              local_port |-> Unwrap(local_port),
                                              external_addr |-> external(current_mapping)])
         ]_vars
    /\ [](\A gw \in GwInputs, e \in ExtAddrs :
              LET r == get_mapping(None, Some(e), gw, mapping_task, fate)
              IN  r.task = mapping_task /\ r.fate = fate /\ r.cancelled = 0)

\* A Renew event spawned a task for the port of the mapping held, asking for
\* the mapping's external address, and the mapping is still held.
C34_Witness ==
    /\ last.ev = "Renew"
    /\ Held
    /\ IsSome(local_port)
    /\ IsSome(mapping_task)
    /\ Unwrap(mapping_task).local_port = Unwrap(local_port)
    /\ Unwrap(mapping_task).external_addr = Some(Unwrap(current_mapping.mapping).external)
    /\ current_mapping.timer = "expire"

\* The k-th set bit of a mask, counted from the lowest.
SetBit(attrs, k) ==
    CHOOSE i \in attrs : Cardinality({j \in attrs : j < i}) = k - 1

\* The socket addresses that are read: one per set bit, as long as data lasts.
Read(attrs, data) ==
    IF Cardinality(attrs) < Len(data) THEN Cardinality(attrs) ELSE Len(data)

C36_RoundsShortenInput ==
    [][(nw.fn = "parse_rib" /\ nw.pc = "loop" /\ BLen(nw.b) > 4 /\ nw' # nw) =>
           \/ /\ nw'.pc = "done"
              /\ IsSome(nw'.result)
              /\ ~Unwrap(nw'.result).ok
           \/ /\ nw'.pc = "loop"
              /\ BLen(nw'.b) < BLen(nw.b)
      ]_vars

\* The requests that wait on the probe task in flight.
Waiting ==
    IF IsSome(probing_task)
    THEN {Unwrap(probing_task).receivers[i] :
              i \in 1..Len(Unwrap(probing_task).receivers)}
    ELSE {}

\* C37: no request's channel is sent two results; while the supervisor runs,
\* every Probe request it has handled either has its result or waits, once,
\* on the probe task in flight, and never both; and while the supervisor
\* keeps running and probe tasks end, every request handled gets its result.
C37_ExactlyOneReply ==
    /\ [](\A r \in DOMAIN answered :
              /\ answered[r] <= 1
              /\ r > nreq => (answered[r] = 0 /\ r \notin Waiting)
              /\ (running /\ r <= nreq) => ((answered[r] = 1) # (r \in Waiting)))
    /\ [](IsSome(probing_task) =>
              \A i, j \in 1..Len(Unwrap(probing_task).receivers) :
                  Unwrap(probing_task).receivers[i] = Unwrap(probing_task).receivers[j]
                      => i = j)
    /\ \A r \in 1..MaxProbeReqsP : (nreq >= r) ~> (answered[r] = 1 \/ ~running)

\* Two requests were handled: the first was answered at once with the gateway
\* error, the second by the probe task it had started.
C37_Witness ==
    /\ running
    /\ nreq = 2
    /\ answered = <<1, 1>>
    /\ last.ev = "ProbeReady"
    /\ Len(last.sent) = 1
    /\ last.sent[1][1] = 2

\* C38: the mapping held and the mapping task in the slot were made for the
\* current local port; while the local port is unset no mapping is held and
\* no mapping task is in the slot or running, and only UpdateLocalPort with
\* a port ends that.
C38_MadeForCurrentPort ==
    /\ [](/\ Held =>
                /\ IsSome(local_port)
                /\ Unwrap(current_mapping.mapping).local_port = Unwrap(local_port)
          /\ IsSome(mapping_task) =>
                /\ IsSome(local_port)
                /\ Unwrap(mapping_task).local_port = Unwrap(local_port)
          /\ ~IsSome(local_port) =>
                /\ ~Held
                /\ current_mapping.address = None
                /\ mapping_task = None
                /\ Running(fate) = {})
    /\ [][(~IsSome(local_port) /\ IsSome(local_port')) =>
              last'.ev = "UpdateLocalPort"]_vars

\* After deactivate released the mapping held for port A, requests went on
\* being handled, and nothing was held or started.
C38_Witness ==
    /\ running
    /\ ~IsSome(local_port)
    /\ \E i \in DOMAIN released : released[i] = 1
    /\ last.ev = "ProcureMapping"
    /\ ~Held
    /\ mapping_task = None

\* Whether the Config enables a protocol.
Enabled(cfg, kind) ==
    \/ kind = "upnp" /\ cfg.enable_upnp
    \/ kind = "pcp" /\ cfg.enable_pcp
    \/ kind = "nat_pmp" /\ cfg.enable_nat_pmp

\* C39: a mapping task is only ever spawned for a protocol the Config
\* enables, and a probe task only probes protocols that are enabled and were
\* not available when it was spawned; the freshness record holds a time for
\* a protocol only if that protocol is enabled, so that no disabled protocol
\* is ever available.
C39_DisabledNeverUsed ==
    /\ [](/\ IsSome(mapping_task) => Enabled(config, Unwrap(mapping_task).kind)
          /\ IsSome(probing_task) =>
                \A k \in {"upnp", "pcp", "nat_pmp"} :
                    Unwrap(probing_task).probed[k] => Enabled(config, k)
          /\ IsSome(full_probe.last_upnp_gateway_addr) => config.enable_upnp
          /\ IsSome(full_probe.last_pcp) => config.enable_pcp
          /\ IsSome(full_probe.last_nat_pmp) => config.enable_nat_pmp
          /\ \A k \in {"upnp", "pcp", "nat_pmp"} :
                output(full_probe, now)[k] => Enabled(config, k))
    /\ [][/\ \A i \in DOMAIN fate :
                 (fate'[i] = "running" /\ fate[i] # "running") =>
                     /\ IsSome(mapping_task')
                     /\ Unwrap(mapping_task').id = i
                     /\ Enabled(config, Unwrap(mapping_task').kind)
          /\ live_probes' > live_probes =>
                 /\ IsSome(probing_task')
                 /\ \A k \in {"upnp", "pcp", "nat_pmp"} :
                        Unwrap(probing_task').probed[k] =
                            (Enabled(config, k) /\ ~output(full_probe, now)[k])
          /\ config' = config
         ]_vars

\* With PCP alone enabled a probe found it, and a mapping task was spawned
\* for it; UPnP and NAT-PMP were neither probed nor found.
C39_Witness ==
    /\ config = [enable_upnp |-> FALSE, enable_pcp |-> TRUE, enable_nat_pmp |-> FALSE]
    /\ IsSome(full_probe.last_pcp)
    /\ ~IsSome(full_probe.last_upnp_gateway_addr)
    /\ ~IsSome(full_probe.last_nat_pmp)
    /\ IsSome(mapping_task)
    /\ Unwrap(mapping_task).kind = "pcp"

\* C40: within one connection a NEWADDR message sends a Change exactly when
\* it carries an address that is not recorded for its interface index, and
\* records the address; a DELADDR message takes its address out of the
\* record and always sends a Change; no other message touches the record,
\* and a new connection starts with an empty record.  A NEWADDR repeated
\* for the same interface and address sends nothing more until then.
C40_AddrCache ==
    /\ [][(/\ nw.fn = "RouteMonitor"
           /\ nw.pc = "process"
           /\ nw'.receiver = nw.receiver
           /\ IsSome(nw'.msg)) =>
              LET m == Unwrap(nw'.msg)
                  cache == nw.addr_cache
              IN  /\ m.payload = "NewAddress" =>
                         /\ nw'.sends = IF /\ IsSome(m.address)
                                           /\ Unwrap(m.address) \notin cache[m.index]
                                        THEN 1 ELSE 0
                         /\ nw'.addr_cache =
                                IF IsSome(m.address)
                                THEN [cache EXCEPT ![m.index] = @ \cup {Unwrap(m.address)}]
                                ELSE cache
                  /\ m.payload = "DelAddress" =>
                         /\ nw'.sends = 1
                         /\ nw'.addr_cache =
                                IF IsSome(m.address)
                                THEN [cache EXCEPT ![m.index] = @ \ {Unwrap(m.address)}]
                                ELSE cache
                  /\ m.payload \notin {"NewAddress", "DelAddress"} =>
                         nw'.addr_cache = cache
         ]_vars
    /\ [][(nw.fn = "RouteMonitor" /\ nw.pc = "setup" /\ nw'.pc = "process") =>
              \A i \in IfIndexes : nw'.addr_cache[i] = {}]_vars

\* NEWADDR came again for an address on record, one recorded for the other
\* interface as well: nothing was sent.
C40_Witness ==
    /\ nw.fn = "RouteMonitor"
    /\ nw.pc = "process"
    /\ nw.msg = Some([payload |-> "NewAddress", index |-> 1, address |-> Some("a1")])
    /\ nw.sends = 0
    /\ nw.addr_cache[1] = {"a1"}
    /\ nw.addr_cache[2] = {"a1"}
====
